---------------------------- MODULE Spec2Model ----------------------------
(***************************************************************************)
(* A model of the timelang crate (src/src/lib.rs): the node parsers, the   *)
(* Display renderers and the FromStr / to_string entry points.             *)
(*                                                                         *)
(* Text is modelled after tokenisation: a token is an integer literal, an  *)
(* identifier or a punctuation character.  An identifier is the pair of    *)
(* its lower-case form 'w' and its capitalisation 'c', so "Monday" is      *)
(* (monday, Title) and "AM" is (am, Upper).  An integer literal is         *)
(* hi * 2^63 + lo with lo small, which is exact for the literals used and  *)
(* closed under the additions the Duration parser performs; 'pad' records  *)
(* a leading zero as written by the {:02} format.                          *)
(***************************************************************************)
EXTENDS Integers, Sequences, FiniteSets, TLC

VARIABLES
    build,   \* "debug" (overflow checks on) or "release" (off)
    value,   \* the AST node the caller holds, with its type
    text,    \* the tokens of the text the caller holds
    origin,  \* how the text came about: none, rendered, typed, edited
    entry,   \* the node type last parsed from the text, or "none"
    result   \* what that parse returned

vars == <<build, value, text, origin, entry, result>>

(***************************************************************************)
(* Tokens and the cursor                                                   *)
(***************************************************************************)
Lit(n) == [k |-> "int", hi |-> 0, lo |-> n, pad |-> FALSE]

BigLit(h, n) == [k |-> "int", hi |-> h, lo |-> n, pad |-> FALSE]

PadLit(n) == [k |-> "int", hi |-> 0, lo |-> n, pad |-> (n < 10)]

Word(w, c) == [k |-> "id", w |-> w, c |-> c]

Id(w) == Word(w, "lower")

Punct(s) == [k |-> "p", s |-> s]

\* str::to_lowercase on an identifier's text
ToLower(id) == [id EXCEPT !.c = "lower"]

\* a string matched against the (lower-case) keys of a table of literals
InTable(table, id) == id.c = "lower" /\ id.w \in DOMAIN table

\* ParseStream::peek / peek2 / peek3 for a token kind, at offset d from the cursor
PeekKind(toks, i, d, kind) ==
    /\ i + d <= Len(toks)
    /\ toks[i + d].k = kind

PeekPunct(toks, i, d, s) ==
    /\ i + d <= Len(toks)
    /\ toks[i + d].k = "p"
    /\ toks[i + d].s = s

(***************************************************************************)
(* Results.  'pos' is where the cursor stands afterwards (a failed parser  *)
(* keeps what it consumed), 'at' the token the error points to.            *)
(***************************************************************************)
Ok(v, pos) == [ok |-> TRUE, val |-> v, pos |-> pos]

Err(msg, at, pos) == [ok |-> FALSE, kind |-> "error", msg |-> msg, at |-> at, pos |-> pos]

Panic(msg, pos) == [ok |-> FALSE, kind |-> "panic", msg |-> msg, at |-> pos, pos |-> pos]

\* input.parse::<Ident>()
ParseIdent(toks, i) ==
    IF PeekKind(toks, i, 0, "id")
    THEN Ok(toks[i], i + 1)
    ELSE Err("expected identifier", i, i)

\* input.parse::<LitInt>()
ParseLitInt(toks, i) ==
    IF PeekKind(toks, i, 0, "int")
    THEN Ok(toks[i], i + 1)
    ELSE Err("expected integer literal", i, i)

\* input.parse::<Token![s]>()
ParsePunct(toks, i, s) ==
    IF PeekPunct(toks, i, 0, s)
    THEN Ok(s, i + 1)
    ELSE Err("expected punctuation", i, i)

(***************************************************************************)
(* Integer widths                                                          *)
(***************************************************************************)
U8Max == 255

U16Max == 65535

\* LitInt::base10_parse::<u8>()
FitsU8(lit) == lit.hi = 0 /\ lit.lo <= U8Max

\* LitInt::base10_parse::<u16>()
FitsU16(lit) == lit.hi = 0 /\ lit.lo <= U16Max

\* LitInt::base10_parse::<u64>(): the literal is below 2^64
FitsU64(lit) == lit.hi <= 1

TooLarge == "number too large to fit in target type"

\* Number(u64)
Num(n) == [hi |-> 0, lo |-> n]

NumIsZero(n) == n.hi = 0 /\ n.lo = 0

NumIsOne(n) == n.hi = 0 /\ n.lo = 1

\* impl Add for Number: u64 addition, which overflows at 2^64
NumOverflows(a, b) == a.hi + b.hi >= 2

NumWrappingAdd(a, b) == [hi |-> (a.hi + b.hi) % 2, lo |-> a.lo + b.lo]

(***************************************************************************)
(* Field parsers                                                           *)
(***************************************************************************)
\* ParseStream::parse::<T>(): T's parser run at the cursor; defined below,
\* after the parsers it dispatches to
RECURSIVE ParseAs(_, _, _)

\* Number without a largest value: every literal is taken as it is
ParseNumberUnbounded(toks, i) ==
    LET lit == ParseLitInt(toks, i) IN
    IF ~lit.ok THEN lit
    ELSE Ok([hi |-> lit.val.hi, lo |-> lit.val.lo], lit.pos)

\* impl Parse for Number
ParseNumber(toks, i) ==
    LET lit == ParseLitInt(toks, i) IN
    IF ~lit.ok THEN lit
    ELSE IF ~FitsU64(lit.val) THEN Err(TooLarge, i, lit.pos)
    ELSE Ok([hi |-> lit.val.hi, lo |-> lit.val.lo], lit.pos)

\* DayOfMonth without the lower bound: 'if val > 31' alone
ParseDayOfMonthNoLowerBound(toks, i) ==
    LET lit == ParseLitInt(toks, i) IN
    IF ~lit.ok THEN lit
    ELSE IF ~FitsU8(lit.val) THEN Err(TooLarge, i, lit.pos)
    ELSE IF lit.val.lo > 31
         THEN Err("day must be between 1 and 31 (inclusive)", i, lit.pos)
    ELSE Ok(lit.val.lo, lit.pos)

\* impl Parse for DayOfMonth
ParseDayOfMonth(toks, i) ==
    LET lit == ParseLitInt(toks, i) IN
    IF ~lit.ok THEN lit
    ELSE IF ~FitsU8(lit.val) THEN Err(TooLarge, i, lit.pos)
    ELSE IF lit.val.lo > 31 \/ lit.val.lo = 0
         THEN Err("day must be between 1 and 31 (inclusive)", i, lit.pos)
    ELSE Ok(lit.val.lo, lit.pos)

MonthNames == <<"January", "February", "March", "April", "May", "June", "July",
                "August", "September", "October", "November", "December">>

\* impl Parse for Month
ParseMonth(toks, i) ==
    LET lit == ParseLitInt(toks, i) IN
    IF ~lit.ok THEN lit
    ELSE IF ~FitsU8(lit.val) THEN Err(TooLarge, i, lit.pos)
    ELSE IF lit.val.lo > 12 \/ lit.val.lo = 0
         THEN Err("month must be between 1 and 12 (inclusive)", i, lit.pos)
    ELSE Ok(MonthNames[lit.val.lo], lit.pos)

\* impl From<Month> for u8
MonthToU8(m) == CHOOSE n \in 1..12 : MonthNames[n] = m

\* impl Parse for Year
ParseYear(toks, i) ==
    LET lit == ParseLitInt(toks, i) IN
    IF ~lit.ok THEN lit
    ELSE IF ~FitsU16(lit.val) THEN Err(TooLarge, i, lit.pos)
    ELSE Ok(lit.val.lo, lit.pos)

\* Minute with the literal cast to u8 ('as u8') instead of base10_parse::<u8>
ParseMinuteTruncating(toks, i) ==
    LET lit == ParseLitInt(toks, i) IN
    IF ~lit.ok THEN lit
    ELSE IF lit.val.lo % (U8Max + 1) > 60
         THEN Err("minute must be between 0 and 60 (inclusive)", i, lit.pos)
    ELSE Ok(lit.val.lo % (U8Max + 1), lit.pos)

\* impl Parse for Minute
ParseMinute(toks, i) ==
    LET lit == ParseLitInt(toks, i) IN
    IF ~lit.ok THEN lit
    ELSE IF ~FitsU8(lit.val) THEN Err(TooLarge, i, lit.pos)
    ELSE IF lit.val.lo > 60
         THEN Err("minute must be between 0 and 60 (inclusive)", i, lit.pos)
    ELSE Ok(lit.val.lo, lit.pos)

\* impl Parse for AmPm
ParseAmPm(toks, i) ==
    LET ident == ParseIdent(toks, i) IN
    IF ~ident.ok THEN ident
    ELSE IF ToLower(ident.val) = Id("am") THEN Ok("AM", ident.pos)
    ELSE IF ToLower(ident.val) = Id("pm") THEN Ok("PM", ident.pos)
    ELSE Err("expected 'AM' or 'PM'", i, ident.pos)

\* Hour with the 24-hour bound applied to a 12-hour clock as well
ParseHourOneBound(toks, i) ==
    LET lit == ParseLitInt(toks, i) IN
    IF ~lit.ok THEN lit
    ELSE IF ~FitsU8(lit.val) THEN Err(TooLarge, i, lit.pos)
    ELSE LET am_pm == ParseAs("AmPm", toks, lit.pos) IN
         IF lit.val.lo > 24
         THEN Err("hour must be between 0 and 24 (inclusive)", i, am_pm.pos)
         ELSE IF am_pm.ok
              THEN Ok([t |-> "Hour12", h |-> lit.val.lo, ampm |-> am_pm.val], am_pm.pos)
              ELSE Ok([t |-> "Hour24", h |-> lit.val.lo], am_pm.pos)

\* impl Parse for Hour
ParseHour(toks, i) ==
    LET lit == ParseLitInt(toks, i) IN
    IF ~lit.ok THEN lit
    ELSE IF ~FitsU8(lit.val) THEN Err(TooLarge, i, lit.pos)
    ELSE LET am_pm == ParseAs("AmPm", toks, lit.pos) IN
         IF am_pm.ok
         THEN IF lit.val.lo > 12 \/ lit.val.lo = 0
              THEN Err("hour must be between 1 and 12 (inclusive)", i, am_pm.pos)
              ELSE Ok([t |-> "Hour12", h |-> lit.val.lo, ampm |-> am_pm.val], am_pm.pos)
         ELSE IF lit.val.lo > 24
              THEN Err("hour must be between 0 and 24 (inclusive)", i, am_pm.pos)
              ELSE Ok([t |-> "Hour24", h |-> lit.val.lo], am_pm.pos)

TimeUnitWords == [mins |-> "Minutes", minutes |-> "Minutes", minute |-> "Minutes",
                  min |-> "Minutes",
                  hours |-> "Hours", hrs |-> "Hours", hour |-> "Hours", hr |-> "Hours",
                  days |-> "Days", day |-> "Days",
                  weeks |-> "Weeks", week |-> "Weeks",
                  months |-> "Months", month |-> "Months",
                  years |-> "Years", yr |-> "Years", year |-> "Years"]

\* TimeUnit looking at the identifier without consuming it
ParseTimeUnitPeeking(toks, i) ==
    LET ident == ParseIdent(toks, i) IN
    IF ~ident.ok THEN ident
    ELSE IF InTable(TimeUnitWords, ToLower(ident.val))
         THEN Ok(TimeUnitWords[ToLower(ident.val).w], i)
    ELSE Err("expected one of 'minutes', 'hours', 'days', 'weeks', 'months', and 'years'",
             i, i)

\* impl Parse for TimeUnit
ParseTimeUnit(toks, i) ==
    LET ident == ParseIdent(toks, i) IN
    IF ~ident.ok THEN ident
    ELSE IF InTable(TimeUnitWords, ToLower(ident.val))
         THEN Ok(TimeUnitWords[ToLower(ident.val).w], ident.pos)
    ELSE Err("expected one of 'minutes', 'hours', 'days', 'weeks', 'months', and 'years'",
             i, ident.pos)

RelativeTimeUnitWords == [week |-> "Week", month |-> "Month", year |-> "Year",
                          monday |-> "Monday", tuesday |-> "Tuesday",
                          wednesday |-> "Wednesday", thursday |-> "Thursday",
                          friday |-> "Friday", saturday |-> "Saturday",
                          sunday |-> "Sunday"]

\* impl Parse for RelativeTimeUnit
ParseRelativeTimeUnit(toks, i) ==
    LET ident == ParseIdent(toks, i) IN
    IF ~ident.ok THEN ident
    ELSE IF InTable(RelativeTimeUnitWords, ToLower(ident.val))
         THEN Ok(RelativeTimeUnitWords[ToLower(ident.val).w], ident.pos)
    ELSE Err("expected one of 'week', 'month', 'year', 'monday', ... or 'sunday'",
             i, ident.pos)

(***************************************************************************)
(* Date, Time, DateTime, AbsoluteTime                                      *)
(***************************************************************************)
\* impl Parse for Date
ParseDate(toks, i) ==
    LET day == ParseAs("DayOfMonth", toks, i) IN
    IF ~day.ok THEN day ELSE
    LET s1 == ParsePunct(toks, day.pos, "/") IN
    IF ~s1.ok THEN s1 ELSE
    LET month == ParseAs("Month", toks, s1.pos) IN
    IF ~month.ok THEN month ELSE
    LET s2 == ParsePunct(toks, month.pos, "/") IN
    IF ~s2.ok THEN s2 ELSE
    LET year == ParseAs("Year", toks, s2.pos) IN
    IF ~year.ok THEN year ELSE
    Ok([month |-> month.val, day |-> day.val, year |-> year.val], year.pos)

\* Time reading its marker the way Hour does, by parsing an AmPm on the input
\* itself: an identifier that is no marker is consumed
ParseTimeConsumingMarker(toks, i) ==
    LET hour_lit == ParseLitInt(toks, i) IN
    IF ~hour_lit.ok THEN hour_lit ELSE
    IF ~FitsU8(hour_lit.val) THEN Err(TooLarge, i, hour_lit.pos) ELSE
    LET hour_val == hour_lit.val.lo
        colon == ParsePunct(toks, hour_lit.pos, ":")
    IN
    IF ~colon.ok THEN colon ELSE
    LET min == ParseAs("Minute", toks, colon.pos) IN
    IF ~min.ok THEN min ELSE
    LET am_pm == ParseAs("AmPm", toks, min.pos) IN
    IF am_pm.ok
    THEN IF hour_val > 12 \/ hour_val = 0
         THEN Err("hour must be between 1 and 12 (inclusive)", i, am_pm.pos)
         ELSE Ok([hour |-> [t |-> "Hour12", h |-> hour_val, ampm |-> am_pm.val],
                  minute |-> min.val], am_pm.pos)
    ELSE IF hour_val > 24
         THEN Err("hour must be between 0 and 24 (inclusive)", i, am_pm.pos)
    ELSE Ok([hour |-> [t |-> "Hour24", h |-> hour_val], minute |-> min.val], am_pm.pos)

\* impl Parse for Time
ParseTime(toks, i) ==
    LET hour_lit == ParseLitInt(toks, i) IN
    IF ~hour_lit.ok THEN hour_lit ELSE
    IF ~FitsU8(hour_lit.val) THEN Err(TooLarge, i, hour_lit.pos) ELSE
    LET hour_val == hour_lit.val.lo
        colon == ParsePunct(toks, hour_lit.pos, ":")
    IN
    IF ~colon.ok THEN colon ELSE
    LET min == ParseAs("Minute", toks, colon.pos) IN
    IF ~min.ok THEN min ELSE
    IF /\ PeekKind(toks, min.pos, 0, "id")
       /\ ToLower(toks[min.pos]) \in {Id("am"), Id("pm")}
    THEN LET am_pm == ParseAs("AmPm", toks, min.pos) IN
         IF ~am_pm.ok THEN am_pm
         ELSE IF hour_val > 12 \/ hour_val = 0
              THEN Err("hour must be between 1 and 12 (inclusive)", i, am_pm.pos)
         ELSE Ok([hour |-> [t |-> "Hour12", h |-> hour_val, ampm |-> am_pm.val],
                  minute |-> min.val], am_pm.pos)
    ELSE IF hour_val > 24
         THEN Err("hour must be between 0 and 24 (inclusive)", i, min.pos)
    ELSE Ok([hour |-> [t |-> "Hour24", h |-> hour_val], minute |-> min.val], min.pos)

\* the 'at' of DateTime read unconditionally, as a required keyword
ParseRequiredAt(toks, i) ==
    LET ident == ParseIdent(toks, i) IN
    IF ~ident.ok THEN ident
    ELSE IF ToLower(ident.val) # Id("at")
         THEN Err("expected 'at'", i, i + 1)
         ELSE Ok("at", i + 1)

\* the optional 'at' of DateTime (lib.rs 886-891): the cursor after it, or an error
ParseOptionalAt(toks, i) ==
    IF PeekKind(toks, i, 0, "id")
    THEN IF ToLower(toks[i]) # Id("at")
         THEN Err("expected 'at'", i, i + 1)
         ELSE Ok("at", i + 1)
    ELSE Ok("", i)

\* impl Parse for DateTime
ParseDateTime(toks, i) ==
    LET date == ParseAs("Date", toks, i) IN
    IF ~date.ok THEN date ELSE
    LET at == ParseOptionalAt(toks, date.pos) IN
    IF ~at.ok THEN at ELSE
    LET time == ParseAs("Time", toks, at.pos) IN
    IF ~time.ok THEN time ELSE
    Ok([date |-> date.val, time |-> time.val], time.pos)

\* the lookahead of AbsoluteTime without its second alternative
TimeFollowsDigitsOnly(toks, j) ==
    /\ PeekKind(toks, j, 0, "int")
    /\ PeekPunct(toks, j, 1, ":")
    /\ PeekKind(toks, j, 2, "int")

\* the lookahead of AbsoluteTime taking any identifier and integer for the
\* start of a time, with no ':' behind them
TimeFollowsWordAndNumber(toks, j) ==
    \/ /\ PeekKind(toks, j, 0, "int")
       /\ PeekPunct(toks, j, 1, ":")
       /\ PeekKind(toks, j, 2, "int")
    \/ /\ PeekKind(toks, j, 0, "id")
       /\ PeekKind(toks, j, 1, "int")

\* the lookahead of AbsoluteTime (lib.rs 634-635) on the fork, after the Date
TimeFollows(toks, j) ==
    \/ /\ PeekKind(toks, j, 0, "int")
       /\ PeekPunct(toks, j, 1, ":")
       /\ PeekKind(toks, j, 2, "int")
    \/ /\ PeekKind(toks, j, 0, "id")
       /\ PeekKind(toks, j, 1, "int")
       /\ PeekPunct(toks, j, 2, ":")

\* impl Parse for AbsoluteTime
ParseAbsoluteTime(toks, i) ==
    LET fork == ParseAs("Date", toks, i) IN
    IF ~fork.ok THEN [fork EXCEPT !.pos = i] ELSE
    IF TimeFollows(toks, fork.pos)
    THEN LET dt == ParseAs("DateTime", toks, i) IN
         IF ~dt.ok THEN dt ELSE Ok([t |-> "DateTime", dt |-> dt.val], dt.pos)
    ELSE LET d == ParseAs("Date", toks, i) IN
         IF ~d.ok THEN d ELSE Ok([t |-> "Date", date |-> d.val], d.pos)

(***************************************************************************)
(* NamedRelativeTime                                                       *)
(***************************************************************************)
SingleWordNames == [now |-> "Now", today |-> "Today", tomorrow |-> "Tomorrow",
                    yesterday |-> "Yesterday"]

\* the three-identifier match deciding on the first and the last word alone
MatchDayIdiomByLastWord(ident1, ident2, ident3, p1, p2, p3, pos) ==
    IF ToLower(ident1) = Id("day") /\ ToLower(ident3) = Id("tomorrow")
    THEN Ok("DayAfterTomorrow", pos)
    ELSE IF ToLower(ident1) = Id("day") /\ ToLower(ident3) = Id("yesterday")
    THEN Ok("DayBeforeYesterday", pos)
    ELSE Err("expected one of 'day', 'now', 'today', 'tomorrow', 'yesterday', 'the'",
             p1, pos)

\* the three-identifier match of NamedRelativeTime (lib.rs 756-779)
MatchDayIdiom(ident1, ident2, ident3, p1, p2, p3, pos) ==
    LET ident1_str == ToLower(ident1)
        ident2_str == ToLower(ident2)
        ident3_str == ToLower(ident3)
    IN
    IF ident1_str = Id("day") /\ ident2_str = Id("after") /\ ident3_str = Id("tomorrow")
    THEN Ok("DayAfterTomorrow", pos)
    ELSE IF ident1_str = Id("day") /\ ident2_str = Id("before")
            /\ ident3_str = Id("yesterday")
    THEN Ok("DayBeforeYesterday", pos)
    ELSE IF ident1_str # Id("day")
    THEN Err("expected one of 'day', 'now', 'today', 'tomorrow', 'yesterday', 'the'",
             p1, pos)
    ELSE IF ident2_str # Id("before") /\ ident2_str # Id("after")
    THEN Err("expected 'before' or 'after'", p2, pos)
    ELSE IF ident3_str = Id("tomorrow")
    THEN Err("expected 'yesterday'", p3, pos)
    ELSE Err("expected 'tomorrow'", p3, pos)

\* impl Parse for NamedRelativeTime
ParseNamedRelativeTime(toks, i) ==
    LET first == ParseIdent(toks, i) IN
    IF ~first.ok THEN first ELSE
    IF InTable(SingleWordNames, ToLower(first.val))
    THEN Ok(SingleWordNames[ToLower(first.val).w], first.pos) ELSE
    LET skip == first.val = Id("the") /\ PeekKind(toks, first.pos, 0, "id")
        p1 == IF skip THEN first.pos ELSE i
        ident1 == IF skip THEN ParseIdent(toks, first.pos) ELSE first
    IN
    LET ident2 == ParseIdent(toks, ident1.pos) IN
    IF ~ident2.ok THEN ident2 ELSE
    LET ident3 == ParseIdent(toks, ident2.pos) IN
    IF ~ident3.ok THEN ident3 ELSE
    MatchDayIdiom(ident1.val, ident2.val, ident3.val,
                  p1, ident1.pos, ident2.pos, ident3.pos)

(***************************************************************************)
(* Duration                                                                *)
(***************************************************************************)
UnitFields == [Minutes |-> "minutes", Hours |-> "hours", Days |-> "days",
               Weeks |-> "weeks", Months |-> "months", Years |-> "years"]

Fields == {"minutes", "hours", "days", "weeks", "months", "years"}

None == [some |-> FALSE, v |-> Num(0)]

Some(n) == [some |-> TRUE, v |-> n]

UnwrapOr(opt, n) == IF opt.some THEN opt.v ELSE n

\* impl Add for Number: self.0 + rhs.0 panics on overflow when the build has
\* overflow checks (debug profile) and wraps modulo 2^64 when it has not (release)
NumberAdd(a, b) ==
    IF NumOverflows(a, b) /\ build = "debug"
    THEN [panic |-> TRUE, v |-> Num(0)]
    ELSE [panic |-> FALSE, v |-> NumWrappingAdd(a, b)]

\* the separator handling with ',' and 'and' as alternatives ('else if')
SkipSeparatorEither(toks, i) ==
    IF PeekPunct(toks, i, 0, ",") THEN i + 1
    ELSE IF PeekKind(toks, i, 0, "id") /\ ToLower(toks[i]) = Id("and") THEN i + 1
    ELSE i

\* the separator handling after one pair (lib.rs 488-496): the cursor after it
SkipSeparator(toks, i) ==
    LET j == IF PeekPunct(toks, i, 0, ",") THEN i + 1 ELSE i IN
    IF PeekKind(toks, j, 0, "id") /\ ToLower(toks[j]) = Id("and")
    THEN j + 1
    ELSE j

RECURSIVE DurationLoop(_, _, _)
\* the while loop of Duration::parse (lib.rs 477-497)
DurationLoop(toks, i, acc) ==
    IF ~PeekKind(toks, i, 0, "int") THEN Ok(acc, i) ELSE
    LET num == ParseAs("Number", toks, i) IN
    IF ~num.ok THEN num ELSE
    LET unit == ParseAs("TimeUnit", toks, num.pos) IN
    IF ~unit.ok THEN unit ELSE
    LET f == UnitFields[unit.val]
        sum == NumberAdd(UnwrapOr(acc[f], Num(0)), num.val)
    IN
    IF sum.panic THEN Panic("attempt to add with overflow", unit.pos) ELSE
    DurationLoop(toks, SkipSeparator(toks, unit.pos), [acc EXCEPT ![f] = Some(sum.v)])

RECURSIVE LoopCursors(_, _)
\* the cursor at the head of every iteration of the while loop of
\* Duration::parse (lib.rs 477-497), the last one being where the loop ends
LoopCursors(toks, i) ==
    IF ~PeekKind(toks, i, 0, "int") THEN <<i>> ELSE
    LET num == ParseAs("Number", toks, i) IN
    IF ~num.ok THEN <<i>> ELSE
    LET unit == ParseAs("TimeUnit", toks, num.pos) IN
    IF ~unit.ok THEN <<i>> ELSE
    <<i>> \o LoopCursors(toks, SkipSeparator(toks, unit.pos))

\* impl Parse for Duration
ParseDuration(toks, i) ==
    LET loop == DurationLoop(toks, i, [f \in Fields |-> None]) IN
    IF ~loop.ok THEN loop ELSE
    IF \A f \in Fields : ~loop.val[f].some
    THEN Err("expected [number] followed by one of 'minutes', 'hours', 'days', 'years'",
             loop.pos, loop.pos)
    ELSE Ok([f \in Fields |-> UnwrapOr(loop.val[f], Num(0))], loop.pos)

(***************************************************************************)
(* TimeDirection, RelativeTime, PointInTime                                *)
(***************************************************************************)
\* the 'after' / 'before' arms with the 'last' arm a copy of the 'next' arm
ParseAnchorLastAsNext(toks, i, side) ==
    IF PeekKind(toks, i, 0, "int")
    THEN LET abs == ParseAs("AbsoluteTime", toks, i) IN
         IF ~abs.ok THEN abs
         ELSE Ok([t |-> IF side = "After" THEN "AfterAbsolute" ELSE "BeforeAbsolute",
                  abs |-> abs.val], abs.pos)
    ELSE LET ident2 == ParseIdent(toks, i) IN
         IF ~ident2.ok THEN ident2 ELSE
         IF ToLower(ident2.val) \in {Id("next"), Id("last")}
         THEN LET unit == ParseAs("RelativeTimeUnit", toks, i + 1) IN
              IF ~unit.ok THEN unit
              ELSE Ok([t |-> IF side = "After" THEN "AfterNext" ELSE "BeforeNext",
                       unit |-> unit.val], unit.pos)
         ELSE LET named == ParseAs("NamedRelativeTime", toks, i) IN
              IF ~named.ok THEN named
              ELSE Ok([t |-> IF side = "After" THEN "AfterNamed" ELSE "BeforeNamed",
                       named |-> named.val], named.pos)

\* the 'after' / 'before' arms of TimeDirection (lib.rs 1279-1314); side is
\* "After" or "Before", i the cursor behind the keyword
ParseAnchor(toks, i, side) ==
    IF PeekKind(toks, i, 0, "int")
    THEN LET abs == ParseAs("AbsoluteTime", toks, i) IN
         IF ~abs.ok THEN abs
         ELSE Ok([t |-> IF side = "After" THEN "AfterAbsolute" ELSE "BeforeAbsolute",
                  abs |-> abs.val], abs.pos)
    ELSE LET ident2 == ParseIdent(toks, i) IN
         IF ~ident2.ok THEN ident2 ELSE
         IF ToLower(ident2.val) = Id("next")
         THEN LET unit == ParseAs("RelativeTimeUnit", toks, i + 1) IN
              IF ~unit.ok THEN unit
              ELSE Ok([t |-> IF side = "After" THEN "AfterNext" ELSE "BeforeNext",
                       unit |-> unit.val], unit.pos)
         ELSE IF ToLower(ident2.val) = Id("last")
         THEN LET unit == ParseAs("RelativeTimeUnit", toks, i + 1) IN
              IF ~unit.ok THEN unit
              ELSE Ok([t |-> IF side = "After" THEN "AfterLast" ELSE "BeforeLast",
                       unit |-> unit.val], unit.pos)
         ELSE LET named == ParseAs("NamedRelativeTime", toks, i) IN
              IF ~named.ok THEN named
              ELSE Ok([t |-> IF side = "After" THEN "AfterNamed" ELSE "BeforeNamed",
                       named |-> named.val], named.pos)

\* impl Parse for TimeDirection
ParseTimeDirection(toks, i) ==
    LET ident1 == ParseIdent(toks, i) IN
    IF ~ident1.ok THEN ident1 ELSE
    IF ToLower(ident1.val) = Id("after") THEN ParseAnchor(toks, ident1.pos, "After")
    ELSE IF ToLower(ident1.val) = Id("before") THEN ParseAnchor(toks, ident1.pos, "Before")
    ELSE IF ToLower(ident1.val) = Id("ago") THEN Ok([t |-> "Ago"], ident1.pos)
    ELSE IF ToLower(ident1.val) = Id("from")
    THEN LET ident2 == ParseIdent(toks, ident1.pos) IN
         IF ~ident2.ok THEN ident2
         ELSE IF ToLower(ident2.val) # Id("now")
              THEN Err("expected 'now'", ident1.pos, ident2.pos)
         ELSE Ok([t |-> "FromNow"], ident2.pos)
    ELSE Err("expected one of 'after', 'before', 'ago', 'from'", i, ident1.pos)

NamedLeaders == {"day", "now", "today", "tomorrow", "yesterday", "the"}

\* RelativeTime going on to Duration and TimeDirection when the production its
\* first identifier selects fails
ParseRelativeTimeRevising(toks, i) ==
    LET ident1 == IF PeekKind(toks, i, 0, "id") THEN ToLower(toks[i]) ELSE Id("")
        unit == ParseAs("RelativeTimeUnit", toks, i + 1)
        named == ParseAs("NamedRelativeTime", toks, i)
    IN
    IF PeekKind(toks, i, 0, "id") /\ ident1 \in {Id("next"), Id("last")} /\ unit.ok
    THEN IF ident1 = Id("next")
         THEN Ok([t |-> "Next", unit |-> unit.val], unit.pos)
         ELSE Ok([t |-> "Last", unit |-> unit.val], unit.pos)
    ELSE IF PeekKind(toks, i, 0, "id") /\ ident1 \in {Id(w) : w \in NamedLeaders} /\ named.ok
    THEN Ok([t |-> "Named", named |-> named.val], named.pos)
    ELSE LET duration == ParseAs("Duration", toks, i) IN
         IF ~duration.ok THEN duration ELSE
         LET dir == ParseAs("TimeDirection", toks, duration.pos) IN
         IF ~dir.ok THEN dir
         ELSE Ok([t |-> "Directional", duration |-> duration.val, dir |-> dir.val],
                 dir.pos)

\* impl Parse for RelativeTime
ParseRelativeTime(toks, i) ==
    LET ident1 == IF PeekKind(toks, i, 0, "id") THEN ToLower(toks[i]) ELSE Id("") IN
    IF PeekKind(toks, i, 0, "id") /\ ident1 \in {Id("next"), Id("last")}
    THEN LET unit == ParseAs("RelativeTimeUnit", toks, i + 1) IN
         IF ~unit.ok THEN unit
         ELSE IF ident1 = Id("next")
              THEN Ok([t |-> "Next", unit |-> unit.val], unit.pos)
              ELSE Ok([t |-> "Last", unit |-> unit.val], unit.pos)
    ELSE IF PeekKind(toks, i, 0, "id") /\ ident1 \in {Id(w) : w \in NamedLeaders}
    THEN LET named == ParseAs("NamedRelativeTime", toks, i) IN
         IF ~named.ok THEN named
         ELSE Ok([t |-> "Named", named |-> named.val], named.pos)
    ELSE LET duration == ParseAs("Duration", toks, i) IN
         IF ~duration.ok THEN duration ELSE
         LET dir == ParseAs("TimeDirection", toks, duration.pos) IN
         IF ~dir.ok THEN dir
         ELSE Ok([t |-> "Directional", duration |-> duration.val, dir |-> dir.val],
                 dir.pos)

\* PointInTime parsed as a RelativeTime whatever its first two tokens are
ParsePointInTimeRelativeOnly(toks, i) ==
    LET rel == ParseAs("RelativeTime", toks, i) IN
    IF ~rel.ok THEN rel ELSE Ok([t |-> "Relative", rel |-> rel.val], rel.pos)

\* impl Parse for PointInTime
ParsePointInTime(toks, i) ==
    IF PeekKind(toks, i, 0, "int") /\ PeekPunct(toks, i, 1, "/")
    THEN LET abs == ParseAs("AbsoluteTime", toks, i) IN
         IF ~abs.ok THEN abs ELSE Ok([t |-> "Absolute", abs |-> abs.val], abs.pos)
    ELSE LET rel == ParseAs("RelativeTime", toks, i) IN
         IF ~rel.ok THEN rel ELSE Ok([t |-> "Relative", rel |-> rel.val], rel.pos)

(***************************************************************************)
(* TimeRange and the root, TimeExpression                                  *)
(***************************************************************************)
\* TimeRange taking any identifier behind the first point for the 'to'
ParseTimeRangeAnyTo(toks, i) ==
    LET from == ParseIdent(toks, i) IN
    IF ~from.ok THEN from ELSE
    IF ToLower(from.val) # Id("from") THEN Err("expected 'from'", i, from.pos) ELSE
    LET t1 == ParseAs("PointInTime", toks, from.pos) IN
    IF ~t1.ok THEN t1 ELSE
    LET to == ParseIdent(toks, t1.pos) IN
    IF ~to.ok THEN to ELSE
    LET t2 == ParseAs("PointInTime", toks, to.pos) IN
    IF ~t2.ok THEN t2 ELSE
    Ok([start |-> t1.val, end |-> t2.val], t2.pos)

\* impl Parse for TimeRange
ParseTimeRange(toks, i) ==
    LET from == ParseIdent(toks, i) IN
    IF ~from.ok THEN from ELSE
    IF ToLower(from.val) # Id("from") THEN Err("expected 'from'", i, from.pos) ELSE
    LET t1 == ParseAs("PointInTime", toks, from.pos) IN
    IF ~t1.ok THEN t1 ELSE
    LET to == ParseIdent(toks, t1.pos) IN
    IF ~to.ok THEN to ELSE
    IF ToLower(to.val) # Id("to") THEN Err("expected 'to'", t1.pos, to.pos) ELSE
    LET t2 == ParseAs("PointInTime", toks, to.pos) IN
    IF ~t2.ok THEN t2 ELSE
    Ok([start |-> t1.val, end |-> t2.val], t2.pos)

\* TimeExpression trying PointInTime on the input itself, not on a fork: the
\* Duration is then parsed from where the trial stopped
ParseTimeExpressionNoFork(toks, i) ==
    IF ~PeekKind(toks, i, 0, "id") /\ ~PeekKind(toks, i, 0, "int")
    THEN Err("expected [number] or [keyword]", i, i)
    ELSE IF PeekKind(toks, i, 0, "id")
    THEN LET range == ParseAs("TimeRange", toks, i) IN
         IF ~range.ok THEN range ELSE Ok([t |-> "Range", range |-> range.val], range.pos)
    ELSE IF PeekKind(toks, i, 0, "int") /\ PeekPunct(toks, i, 1, "/")
    THEN LET point == ParseAs("PointInTime", toks, i) IN
         IF ~point.ok THEN point ELSE Ok([t |-> "Specific", point |-> point.val], point.pos)
    ELSE LET point == ParseAs("PointInTime", toks, i) IN
         IF point.ok THEN Ok([t |-> "Specific", point |-> point.val], point.pos)
         ELSE LET duration == ParseAs("Duration", toks, point.pos) IN
              IF ~duration.ok THEN duration
              ELSE Ok([t |-> "Duration", duration |-> duration.val], duration.pos)

\* TimeExpression returning the error of its PointInTime trial when the trial
\* fails, with no Duration alternative
ParseTimeExpressionTrialError(toks, i) ==
    IF ~PeekKind(toks, i, 0, "id") /\ ~PeekKind(toks, i, 0, "int")
    THEN Err("expected [number] or [keyword]", i, i)
    ELSE IF PeekKind(toks, i, 0, "id")
    THEN LET range == ParseAs("TimeRange", toks, i) IN
         IF ~range.ok THEN range ELSE Ok([t |-> "Range", range |-> range.val], range.pos)
    ELSE LET point == ParseAs("PointInTime", toks, i) IN
         IF ~point.ok THEN point ELSE Ok([t |-> "Specific", point |-> point.val], point.pos)

\* impl Parse for TimeExpression
ParseTimeExpression(toks, i) ==
    IF ~PeekKind(toks, i, 0, "id") /\ ~PeekKind(toks, i, 0, "int")
    THEN Err("expected [number] or [keyword]", i, i)
    ELSE IF PeekKind(toks, i, 0, "id")
    THEN LET range == ParseAs("TimeRange", toks, i) IN
         IF ~range.ok THEN range ELSE Ok([t |-> "Range", range |-> range.val], range.pos)
    ELSE IF PeekKind(toks, i, 0, "int") /\ PeekPunct(toks, i, 1, "/")
    THEN LET point == ParseAs("PointInTime", toks, i) IN
         IF ~point.ok THEN point ELSE Ok([t |-> "Specific", point |-> point.val], point.pos)
    ELSE IF ParseAs("PointInTime", toks, i).ok
    THEN LET point == ParseAs("PointInTime", toks, i) IN
         Ok([t |-> "Specific", point |-> point.val], point.pos)
    ELSE IF ParseAs("PointInTime", toks, i).kind = "panic"
    THEN ParseAs("PointInTime", toks, i)
    ELSE LET duration == ParseAs("Duration", toks, i) IN
         IF ~duration.ok THEN duration
         ELSE Ok([t |-> "Duration", duration |-> duration.val], duration.pos)

\* which parser runs which (the input.parse and fork.parse calls of every
\* impl Parse)
Calls ==
    [TimeExpression |-> {"TimeRange", "PointInTime", "Duration"},
     TimeRange |-> {"PointInTime"},
     PointInTime |-> {"AbsoluteTime", "RelativeTime"},
     AbsoluteTime |-> {"Date", "DateTime"},
     DateTime |-> {"Date", "Time"},
     Date |-> {"DayOfMonth", "Month", "Year"},
     Time |-> {"Minute", "AmPm"},
     RelativeTime |-> {"RelativeTimeUnit", "NamedRelativeTime", "Duration", "TimeDirection"},
     TimeDirection |-> {"AbsoluteTime", "RelativeTimeUnit", "NamedRelativeTime"},
     Duration |-> {"Number", "TimeUnit"},
     Hour |-> {"AmPm"},
     NamedRelativeTime |-> {}, RelativeTimeUnit |-> {}, TimeUnit |-> {}, Number |-> {},
     DayOfMonth |-> {}, Month |-> {}, Year |-> {}, Minute |-> {}, AmPm |-> {}]

\* the speculative PointInTime trials of the root on the text (lib.rs 404-405)
RootTrials(toks, i) ==
    IF PeekKind(toks, i, 0, "int") /\ ~PeekPunct(toks, i, 1, "/") THEN 1 ELSE 0

(***************************************************************************)
(* Display: the rendered text, as the tokens it is made of                 *)
(***************************************************************************)
\* impl Display for Number
RenderNumber(n) == <<[k |-> "int", hi |-> n.hi, lo |-> n.lo, pad |-> FALSE]>>

\* one component of Display for Duration: "1 <singular>", "<n> <plural>" or nothing
RenderComponent(n, singular, plural) ==
    IF NumIsOne(n) THEN <<Lit(1), Id(singular)>>
    ELSE IF ~NumIsZero(n) THEN RenderNumber(n) \o <<Id(plural)>>
    ELSE <<>>

\* the separator written in front of every non-zero component, first or not
RenderSeparatorAlways(n, before) ==
    IF ~NumIsZero(n) THEN <<Punct(",")>> ELSE <<>>

\* the ", " written in front of a component (lib.rs 532-535 and alike)
RenderSeparator(n, before) ==
    IF ~NumIsZero(n) /\ before THEN <<Punct(",")>> ELSE <<>>

\* impl Display for Duration
RenderDuration(d) ==
    LET before1 == ~NumIsZero(d.years)
        before2 == before1 \/ ~NumIsZero(d.months)
        before3 == before2 \/ ~NumIsZero(d.weeks)
        before4 == before3 \/ ~NumIsZero(d.days)
        before5 == before4 \/ ~NumIsZero(d.hours)
    IN
    RenderComponent(d.years, "year", "years")
    \o RenderSeparator(d.months, before1) \o RenderComponent(d.months, "month", "months")
    \o RenderSeparator(d.weeks, before2) \o RenderComponent(d.weeks, "week", "weeks")
    \o RenderSeparator(d.days, before3) \o RenderComponent(d.days, "day", "days")
    \o RenderSeparator(d.hours, before4) \o RenderComponent(d.hours, "hour", "hours")
    \o RenderSeparator(d.minutes, before5)
    \o RenderComponent(d.minutes, "minute", "minutes")

\* impl Display for AmPm
RenderAmPm(a) == IF a = "AM" THEN <<Word("am", "Upper")>> ELSE <<Word("pm", "Upper")>>

\* impl Display for Hour
RenderHour(h) ==
    IF h.t = "Hour12" THEN <<Lit(h.h)>> \o RenderAmPm(h.ampm) ELSE <<Lit(h.h)>>

\* impl Display for Minute: {:02}
RenderMinute(m) == <<PadLit(m)>>

\* impl Display for Time
RenderTime(t) ==
    IF t.hour.t = "Hour12"
    THEN <<Lit(t.hour.h), Punct(":")>> \o RenderMinute(t.minute) \o RenderAmPm(t.hour.ampm)
    ELSE <<Lit(t.hour.h), Punct(":")>> \o RenderMinute(t.minute)

\* impl Display for Month
RenderMonth(m) == <<Lit(MonthToU8(m))>>

\* impl Display for Date
RenderDate(d) ==
    <<Lit(d.day), Punct("/")>> \o RenderMonth(d.month) \o <<Punct("/"), Lit(d.year)>>

\* impl Display for DateTime
RenderDateTime(dt) == RenderDate(dt.date) \o <<Id("at")>> \o RenderTime(dt.time)

\* impl Display for AbsoluteTime
RenderAbsoluteTime(a) ==
    IF a.t = "Date" THEN RenderDate(a.date) ELSE RenderDateTime(a.dt)

Weekdays == {"Monday", "Tuesday", "Wednesday", "Thursday", "Friday", "Saturday", "Sunday"}

\* impl Display for RelativeTimeUnit
RenderRelativeTimeUnit(u) ==
    LET w == CHOOSE x \in DOMAIN RelativeTimeUnitWords : RelativeTimeUnitWords[x] = u IN
    IF u \in Weekdays THEN <<Word(w, "Title")>> ELSE <<Id(w)>>

\* NamedRelativeTime written as its shortest accepted form, without 'the'
RenderNamedRelativeTimeShort(n) ==
    CASE n = "Now" -> <<Id("now")>>
      [] n = "Today" -> <<Id("today")>>
      [] n = "Tomorrow" -> <<Id("tomorrow")>>
      [] n = "Yesterday" -> <<Id("yesterday")>>
      [] n = "DayAfterTomorrow" -> <<Id("day"), Id("after"), Id("tomorrow")>>
      [] n = "DayBeforeYesterday" -> <<Id("day"), Id("before"), Id("yesterday")>>

\* impl Display for NamedRelativeTime
RenderNamedRelativeTime(n) ==
    CASE n = "Now" -> <<Id("now")>>
      [] n = "Today" -> <<Id("today")>>
      [] n = "Tomorrow" -> <<Id("tomorrow")>>
      [] n = "Yesterday" -> <<Id("yesterday")>>
      [] n = "DayAfterTomorrow" -> <<Id("the"), Id("day"), Id("after"), Id("tomorrow")>>
      [] n = "DayBeforeYesterday" -> <<Id("the"), Id("day"), Id("before"), Id("yesterday")>>

\* impl AsRef<str> for TimeUnit, which Display for TimeUnit writes
RenderTimeUnit(u) ==
    CASE u = "Minutes" -> <<Id("minutes")>>
      [] u = "Hours" -> <<Id("hours")>>
      [] u = "Days" -> <<Id("days")>>
      [] u = "Weeks" -> <<Id("minutes")>>
      [] u = "Months" -> <<Id("months")>>
      [] u = "Years" -> <<Id("years")>>

\* impl Display for TimeDirection
RenderTimeDirection(dir) ==
    CASE dir.t = "AfterAbsolute" -> <<Id("after")>> \o RenderAbsoluteTime(dir.abs)
      [] dir.t = "BeforeAbsolute" -> <<Id("before")>> \o RenderAbsoluteTime(dir.abs)
      [] dir.t = "Ago" -> <<Id("ago")>>
      [] dir.t = "FromNow" -> <<Id("from"), Id("now")>>
      [] dir.t = "AfterNamed" -> <<Id("after")>> \o RenderNamedRelativeTime(dir.named)
      [] dir.t = "BeforeNamed" -> <<Id("before")>> \o RenderNamedRelativeTime(dir.named)
      [] dir.t = "BeforeNext" ->
            <<Id("before"), Id("next")>> \o RenderRelativeTimeUnit(dir.unit)
      [] dir.t = "BeforeLast" ->
            <<Id("before"), Id("last")>> \o RenderRelativeTimeUnit(dir.unit)
      [] dir.t = "AfterNext" ->
            <<Id("after"), Id("next")>> \o RenderRelativeTimeUnit(dir.unit)
      [] dir.t = "AfterLast" ->
            <<Id("after"), Id("last")>> \o RenderRelativeTimeUnit(dir.unit)

\* impl Display for RelativeTime
RenderRelativeTime(rel) ==
    CASE rel.t = "Directional" ->
            RenderDuration(rel.duration) \o RenderTimeDirection(rel.dir)
      [] rel.t = "Next" -> <<Id("next")>> \o RenderRelativeTimeUnit(rel.unit)
      [] rel.t = "Last" -> <<Id("last")>> \o RenderRelativeTimeUnit(rel.unit)
      [] rel.t = "Named" -> RenderNamedRelativeTime(rel.named)

\* impl Display for PointInTime
RenderPointInTime(p) ==
    IF p.t = "Absolute" THEN RenderAbsoluteTime(p.abs) ELSE RenderRelativeTime(p.rel)

\* impl Display for TimeRange
RenderTimeRange(tr) ==
    <<Id("from")>> \o RenderPointInTime(tr.start) \o <<Id("to")>>
    \o RenderPointInTime(tr.end)

\* impl Display for TimeExpression
RenderTimeExpression(e) ==
    CASE e.t = "Specific" -> RenderPointInTime(e.point)
      [] e.t = "Range" -> RenderTimeRange(e.range)
      [] e.t = "Duration" -> RenderDuration(e.duration)

(***************************************************************************)
(* Entry points: syn::parse2::<T> / T::from_str run T's parser and then     *)
(* require that no token is left; to_string writes Display.                *)
(***************************************************************************)
ParseAs(ty, toks, i) ==
    CASE ty = "TimeExpression" -> ParseTimeExpression(toks, i)
      [] ty = "TimeRange" -> ParseTimeRange(toks, i)
      [] ty = "PointInTime" -> ParsePointInTime(toks, i)
      [] ty = "RelativeTime" -> ParseRelativeTime(toks, i)
      [] ty = "AbsoluteTime" -> ParseAbsoluteTime(toks, i)
      [] ty = "Duration" -> ParseDuration(toks, i)
      [] ty = "TimeDirection" -> ParseTimeDirection(toks, i)
      [] ty = "NamedRelativeTime" -> ParseNamedRelativeTime(toks, i)
      [] ty = "DateTime" -> ParseDateTime(toks, i)
      [] ty = "Date" -> ParseDate(toks, i)
      [] ty = "Time" -> ParseTime(toks, i)
      [] ty = "Hour" -> ParseHour(toks, i)
      [] ty = "Minute" -> ParseMinute(toks, i)
      [] ty = "DayOfMonth" -> ParseDayOfMonth(toks, i)
      [] ty = "Month" -> ParseMonth(toks, i)
      [] ty = "Year" -> ParseYear(toks, i)
      [] ty = "TimeUnit" -> ParseTimeUnit(toks, i)
      [] ty = "RelativeTimeUnit" -> ParseRelativeTimeUnit(toks, i)
      [] ty = "AmPm" -> ParseAmPm(toks, i)
      [] ty = "Number" -> ParseNumber(toks, i)

\* syn::parse2 / syn::parse_str: the parser's result, or an error when it
\* succeeded with tokens left
ParseStr(ty, toks) ==
    LET r == ParseAs(ty, toks, 1) IN
    IF r.ok /\ r.pos <= Len(toks)
    THEN Err("unexpected token", r.pos, r.pos)
    ELSE r

\* ToString::to_string, through the Display impl of the node's type
Render(v) ==
    CASE v.ty = "TimeExpression" -> RenderTimeExpression(v.node)
      [] v.ty = "Duration" -> RenderDuration(v.node)
      [] v.ty = "Time" -> RenderTime(v.node)
      [] v.ty = "Hour" -> RenderHour(v.node)
      [] v.ty = "Minute" -> RenderMinute(v.node)
      [] v.ty = "TimeUnit" -> RenderTimeUnit(v.node)
      [] v.ty = "RelativeTimeUnit" -> RenderRelativeTimeUnit(v.node)
      [] v.ty = "AmPm" -> RenderAmPm(v.node)
      [] v.ty = "Number" -> RenderNumber(v.node)
      [] v.ty = "TimeRange" -> RenderTimeRange(v.node)
      [] v.ty = "AbsoluteTime" -> RenderAbsoluteTime(v.node)
      [] v.ty = "DateTime" -> RenderDateTime(v.node)
      [] v.ty = "TimeDirection" -> RenderTimeDirection(v.node)
      [] v.ty = "NamedRelativeTime" -> RenderNamedRelativeTime(v.node)

(***************************************************************************)
(* The values and texts the model ranges over                              *)
(***************************************************************************)
\* the largest component of an enumerated Duration
MaxNum == 2

\* the number of Number-TimeUnit pairs a caller types
MaxPairs == 2

Builds == {"debug", "release"}

Capitalisations == {"lower", "Title", "Upper"}

Two63 == [hi |-> 1, lo |-> 0]

Durations == [Fields -> {Num(n) : n \in 0..MaxNum}]

ZeroDuration == [f \in Fields |-> Num(0)]

DurationSamples ==
    { ZeroDuration,
      [ZeroDuration EXCEPT !.days = Num(1)],
      [ZeroDuration EXCEPT !.years = Num(MaxNum), !.minutes = Num(1)],
      [ZeroDuration EXCEPT !.months = Num(1), !.weeks = Num(MaxNum), !.hours = Num(1)] }

HourSamples ==
    {[t |-> "Hour12", h |-> h, ampm |-> a] : h \in {1, 12}, a \in {"AM", "PM"}}
    \cup {[t |-> "Hour24", h |-> h] : h \in {0, 24}}

MinuteSamples == {0, 5, 60}

TimeSamples == [hour : HourSamples, minute : MinuteSamples]

DateSamples ==
    { [month |-> "January", day |-> 1, year |-> 0],
      [month |-> "June", day |-> 15, year |-> 2022],
      [month |-> "December", day |-> 31, year |-> 65535] }

\* the times of day an enumerated DateTime has: each hour format at both ends
DateTimeTimes ==
    { [hour |-> [t |-> "Hour12", h |-> 1, ampm |-> "AM"], minute |-> 0],
      [hour |-> [t |-> "Hour12", h |-> 12, ampm |-> "PM"], minute |-> 60],
      [hour |-> [t |-> "Hour24", h |-> 0], minute |-> 5],
      [hour |-> [t |-> "Hour24", h |-> 24], minute |-> 60] }

AbsoluteSamples ==
    {[t |-> "Date", date |-> d] : d \in DateSamples}
    \cup {[t |-> "DateTime", dt |-> [date |-> d, time |-> tm]] :
            d \in {x \in DateSamples : x.day # 15}, tm \in DateTimeTimes}

\* the absolute times used as anchors and as range ends: a Date, a 12-hour
\* and a 24-hour DateTime
AnchorSamples ==
    {a \in AbsoluteSamples :
        \/ a.t = "Date" /\ a.date.day = 15
        \/ a.t = "DateTime" /\ a.dt.date.day = 1 /\ a.dt.time.minute # 60}

NamedRelativeTimes ==
    {"Now", "Today", "Tomorrow", "Yesterday", "DayAfterTomorrow", "DayBeforeYesterday"}

RelativeTimeUnits == {RelativeTimeUnitWords[w] : w \in DOMAIN RelativeTimeUnitWords}

TimeUnits == {TimeUnitWords[w] : w \in DOMAIN TimeUnitWords}

DirectionSamples ==
    {[t |-> "Ago"], [t |-> "FromNow"]}
    \cup {[t |-> k, abs |-> a] : k \in {"AfterAbsolute", "BeforeAbsolute"}, a \in AnchorSamples}
    \cup {[t |-> k, named |-> n] : k \in {"AfterNamed", "BeforeNamed"},
                                    n \in NamedRelativeTimes}
    \cup {[t |-> k, unit |-> u] : k \in {"AfterNext", "AfterLast", "BeforeNext", "BeforeLast"},
                                   u \in {"Week", "Monday"}}

OneDay == [ZeroDuration EXCEPT !.days = Num(1)]

\* every direction with a one-day Duration, every Duration sample with 'ago'
DirectionalSamples ==
    {[t |-> "Directional", duration |-> OneDay, dir |-> dir] : dir \in DirectionSamples}
    \cup {[t |-> "Directional", duration |-> d, dir |-> [t |-> "Ago"]] :
            d \in DurationSamples}

RelativeSamples ==
    {[t |-> "Named", named |-> n] : n \in NamedRelativeTimes}
    \cup {[t |-> k, unit |-> u] : k \in {"Next", "Last"}, u \in RelativeTimeUnits}
    \cup DirectionalSamples

PointSamples ==
    {[t |-> "Absolute", abs |-> a] : a \in AbsoluteSamples}
    \cup {[t |-> "Relative", rel |-> r] : r \in RelativeSamples}

\* the points a range is built from: one of each shape
RangePointSamples ==
    {p \in PointSamples :
        \/ p.t = "Absolute" /\ p.abs \in AnchorSamples
        \/ p.t = "Relative" /\ p.rel.t = "Named" /\ p.rel.named = "DayBeforeYesterday"
        \/ p.t = "Relative" /\ p.rel.t = "Next" /\ p.rel.unit = "Friday"
        \/ p.t = "Relative" /\ p.rel.t = "Directional" /\ p.rel.duration = OneDay
           /\ \/ p.rel.dir.t = "FromNow"
              \/ p.rel.dir.t = "AfterAbsolute" /\ p.rel.dir.abs.t = "Date"
              \/ p.rel.dir.t = "BeforeLast" /\ p.rel.dir.unit = "Monday"}

TimeExpressions ==
    {[t |-> "Specific", point |-> p] : p \in PointSamples}
    \cup {[t |-> "Range", range |-> [start |-> a, end |-> b]] :
            a \in RangePointSamples, b \in RangePointSamples}
    \cup {[t |-> "Duration", duration |-> d] : d \in DurationSamples}

NoValue == [ty |-> "None", node |-> <<>>]

ExpressionValues == {[ty |-> "TimeExpression", node |-> e] : e \in TimeExpressions}

DurationValues == {[ty |-> "Duration", node |-> d] : d \in Durations}

FieldValues ==
    {[ty |-> "Time", node |-> x] : x \in TimeSamples}
    \cup {[ty |-> "Hour", node |-> x] : x \in HourSamples}
    \cup {[ty |-> "Minute", node |-> x] : x \in MinuteSamples}
    \cup {[ty |-> "TimeUnit", node |-> x] : x \in TimeUnits}
    \cup {[ty |-> "RelativeTimeUnit", node |-> x] : x \in RelativeTimeUnits}
    \cup {[ty |-> "AmPm", node |-> x] : x \in {"AM", "PM"}}
    \cup {[ty |-> "Number", node |-> x] : x \in {Num(0), Num(MaxNum), Two63}}

\* the integer literals a caller writes over a rendered one: the edges of
\* every field's range, of u8 and u16, and 2^63 and 2^64
LiteralSamples ==
    {Lit(n) : n \in {0, 1, 12, 13, 24, 25, 31, 32, 60, 61, 255, 256, 259, 65535, 65536}}
    \cup {BigLit(1, 0), BigLit(2, 0)}

\* the literals that are out of some date field's range
DateLiteralSamples == {Lit(n) : n \in {0, 13, 32}}

\* the nodes below the root a caller renders: ranges, absolute times, date
\* times, directions and named relative times
NodeValues ==
    {[ty |-> "TimeRange", node |-> [start |-> a, end |-> b]] :
        a \in RangePointSamples, b \in RangePointSamples}
    \cup {[ty |-> "AbsoluteTime", node |-> x] : x \in AbsoluteSamples}
    \cup {[ty |-> "DateTime", node |-> [date |-> d, time |-> tm]] :
            d \in DateSamples, tm \in DateTimeTimes}
    \cup {[ty |-> "TimeDirection", node |-> x] : x \in DirectionSamples}
    \cup {[ty |-> "NamedRelativeTime", node |-> x] : x \in NamedRelativeTimes}

\* the identifiers a caller writes over a rendered one: a word that is no
\* keyword, and keywords of the other kind
WordSamples == {Id("on"), Id("to"), Id("before"), Id("last")}

\* the number of identifiers a caller types
MaxWords == 4

\* the identifiers a caller types: the words of the named relative times
TypedWords ==
    {Id("the"), Id("day"), Id("after"), Id("before"), Id("tomorrow"), Id("yesterday"),
     Id("now")}

NoResult == [ok |-> FALSE, kind |-> "none", msg |-> "", at |-> 0, pos |-> 0]

(***************************************************************************)
(* The caller's operations                                                 *)
(***************************************************************************)
\* value.to_string()
ToText ==
    /\ value.ty # "None"
    /\ origin = "none"
    /\ text' = Render(value)
    /\ origin' = "rendered"
    /\ entry' = "none"
    /\ result' = NoResult
    /\ UNCHANGED <<build, value>>

\* the caller spells the identifier at i with another capitalisation
Recase(i, c) ==
    /\ origin = "rendered"
    /\ i \in 1..Len(text)
    /\ text[i].k = "id"
    /\ text[i].c # c
    /\ text' = [text EXCEPT ![i].c = c]
    /\ origin' = "edited"
    /\ entry' = "none"
    /\ result' = NoResult
    /\ UNCHANGED <<build, value>>

\* the caller leaves out an optional word ('at', 'the') at i
DropWord(i) ==
    /\ origin = "rendered"
    /\ i \in 1..Len(text)
    /\ text[i] \in {Id("at"), Id("the")}
    /\ text' = SubSeq(text, 1, i - 1) \o SubSeq(text, i + 1, Len(text))
    /\ origin' = "edited"
    /\ entry' = "none"
    /\ result' = NoResult
    /\ UNCHANGED <<build, value>>

\* the caller writes another integer literal at i
ReplaceLiteral(i, lit) ==
    /\ origin = "rendered"
    /\ i \in 1..Len(text)
    /\ text[i].k = "int"
    /\ text[i] # lit
    /\ text' = [text EXCEPT ![i] = lit]
    /\ origin' = "edited"
    /\ entry' = "none"
    /\ result' = NoResult
    /\ UNCHANGED <<build, value>>

\* the caller writes another identifier at i
ReplaceWord(i, w) ==
    /\ origin = "rendered"
    /\ i \in 1..Len(text)
    /\ text[i].k = "id"
    /\ ToLower(text[i]) # w
    /\ text' = [text EXCEPT ![i] = w]
    /\ origin' = "edited"
    /\ entry' = "none"
    /\ result' = NoResult
    /\ UNCHANGED <<build, value>>

\* the caller, holding no value, types one more identifier
TypeWord(w) ==
    /\ value.ty = "None"
    /\ Len(text) < MaxWords
    /\ text' = Append(text, w)
    /\ origin' = "typed"
    /\ entry' = "none"
    /\ result' = NoResult
    /\ UNCHANGED <<build, value>>

PairCount(toks) == Cardinality({i \in 1..Len(toks) : toks[i].k = "int"})

\* the caller, holding no value, types one more Number-TimeUnit pair
TypePair(sep, lit, word) ==
    /\ value.ty = "None"
    /\ origin \in {"none", "typed"}
    /\ PairCount(text) < MaxPairs
    /\ text' = text \o (IF text = <<>> THEN <<>> ELSE sep) \o <<lit, word>>
    /\ origin' = "typed"
    /\ entry' = "none"
    /\ result' = NoResult
    /\ UNCHANGED <<build, value>>

\* the caller ends the typed pairs with a separator, a direction or both
TypeTail(tail) ==
    /\ value.ty = "None"
    /\ origin = "typed"
    /\ PairCount(text) >= 1
    /\ text' = text \o tail
    /\ origin' = "edited"
    /\ entry' = "none"
    /\ result' = NoResult
    /\ UNCHANGED <<build, value>>

\* syn::parse2::<ty>(text) / text.parse::<ty>()
Parse2(ty) ==
    /\ origin # "none"
    /\ entry' = ty
    /\ result' = ParseStr(ty, text)
    /\ UNCHANGED <<build, value, text, origin>>

ParseTimeExpressionStr == Parse2("TimeExpression")

ParseTimeRangeStr == Parse2("TimeRange")

ParsePointInTimeStr == Parse2("PointInTime")

ParseRelativeTimeStr == Parse2("RelativeTime")

ParseAbsoluteTimeStr == Parse2("AbsoluteTime")

ParseDurationStr == Parse2("Duration")

ParseTimeDirectionStr == Parse2("TimeDirection")

ParseNamedRelativeTimeStr == Parse2("NamedRelativeTime")

ParseDateTimeStr == Parse2("DateTime")

ParseDateStr == Parse2("Date")

ParseTimeStr == Parse2("Time")

ParseHourStr == Parse2("Hour")

ParseMinuteStr == Parse2("Minute")

ParseTimeUnitStr == Parse2("TimeUnit")

ParseRelativeTimeUnitStr == Parse2("RelativeTimeUnit")

ParseAmPmStr == Parse2("AmPm")

ParseNumberStr == Parse2("Number")

(***************************************************************************)
(* Spec: a caller holding a TimeExpression renders it, may respell the     *)
(* text in one place, and parses it.                                       *)
(***************************************************************************)
InitWith(values) ==
    /\ build \in Builds
    /\ value \in values
    /\ text = <<>>
    /\ origin = "none"
    /\ entry = "none"
    /\ result = NoResult

Init == InitWith(ExpressionValues)

Next ==
    \/ ToText
    \/ \E i \in 1..Len(text), c \in Capitalisations : Recase(i, c)
    \/ \E i \in 1..Len(text) : DropWord(i)
    \/ \E i \in 1..Len(text), lit \in DateLiteralSamples : ReplaceLiteral(i, lit)
    \/ ParseTimeExpressionStr
    \/ ParseTimeRangeStr
    \/ ParsePointInTimeStr
    \/ ParseRelativeTimeStr
    \/ ParseAbsoluteTimeStr
    \/ ParseTimeDirectionStr
    \/ ParseNamedRelativeTimeStr
    \/ ParseDateTimeStr
    \/ ParseDateStr

Spec == Init /\ [][Next]_vars

(***************************************************************************)
(* SpecDuration: a caller renders a Duration, or types Number-TimeUnit     *)
(* pairs, and parses the text as a Duration.                               *)
(***************************************************************************)
\* what a caller writes between two pairs: the four separators of the grammar,
\* and 'and' in front of the comma
PairSeparators ==
    {<<>>, <<Punct(",")>>, <<Id("and")>>, <<Punct(","), Id("and")>>,
     <<Id("and"), Punct(",")>>}

PairLiterals == {Lit(1), Lit(MaxNum), BigLit(1, 0)}

PairWords == {Id("minutes"), Id("hours"), Id("days"), Id("weeks"), Id("months"), Id("years")}

InitDuration == InitWith(DurationValues \cup {NoValue})

NextDuration ==
    \/ ToText
    \/ \E sep \in PairSeparators, lit \in PairLiterals, word \in PairWords :
          TypePair(sep, lit, word)
    \/ ParseDurationStr

SpecDuration == InitDuration /\ [][NextDuration]_vars

(***************************************************************************)
(* SpecPhrase: a caller types Number-TimeUnit pairs, may end them with a   *)
(* separator or a direction, and parses the text as a Duration, a          *)
(* RelativeTime, a PointInTime, a TimeExpression or an Hour.               *)
(***************************************************************************)
PhraseLiterals == {Lit(1), BigLit(1, 0)}

PhraseWords == {Id("days"), Id("minutes")}

\* what a caller writes behind the last pair
Tails ==
    {<<Punct(",")>>, <<Id("and")>>, <<Punct(","), Id("and")>>, <<Id("and"), Id("and")>>,
     <<Id("ago")>>, <<Id("and"), Id("ago")>>, <<Punct(","), Id("ago")>>}

InitPhrase == InitWith({NoValue})

NextPhrase ==
    \/ \E sep \in PairSeparators, lit \in PhraseLiterals, word \in PhraseWords :
          TypePair(sep, lit, word)
    \/ \E tail \in Tails : TypeTail(tail)
    \/ ParseDurationStr
    \/ ParseRelativeTimeStr
    \/ ParsePointInTimeStr
    \/ ParseTimeExpressionStr
    \/ ParseHourStr

SpecPhrase == InitPhrase /\ [][NextPhrase]_vars

(***************************************************************************)
(* SpecFields: a caller renders a field, may respell it or write another   *)
(* literal, and parses the text with a field parser.                       *)
(***************************************************************************)
InitFields == InitWith(FieldValues)

NextFields ==
    \/ ToText
    \/ \E i \in 1..Len(text), c \in Capitalisations : Recase(i, c)
    \/ \E i \in 1..Len(text), lit \in LiteralSamples : ReplaceLiteral(i, lit)
    \/ ParseTimeStr
    \/ ParseHourStr
    \/ ParseMinuteStr
    \/ ParseTimeUnitStr
    \/ ParseRelativeTimeUnitStr
    \/ ParseAmPmStr
    \/ ParseNumberStr

SpecFields == InitFields /\ [][NextFields]_vars

(***************************************************************************)
(* SpecNodes: a caller renders a node below the root, may leave out or     *)
(* rewrite one word or rewrite one literal, or types identifiers, and      *)
(* parses the text.                                                        *)
(***************************************************************************)
InitNodes == InitWith(NodeValues \cup {NoValue})

NextNodes ==
    \/ ToText
    \/ \E i \in 1..Len(text) : DropWord(i)
    \/ \E i \in 1..Len(text), w \in WordSamples : ReplaceWord(i, w)
    \/ \E i \in 1..Len(text), lit \in DateLiteralSamples : ReplaceLiteral(i, lit)
    \/ \E w \in TypedWords : TypeWord(w)
    \/ ParseTimeRangeStr
    \/ ParseRelativeTimeStr
    \/ ParseAbsoluteTimeStr
    \/ ParseDateTimeStr
    \/ ParseTimeDirectionStr
    \/ ParseNamedRelativeTimeStr

SpecNodes == InitNodes /\ [][NextNodes]_vars

(***************************************************************************)
(* Properties of the root parser and of Display, checked under Spec        *)
(***************************************************************************)
\* C1: parsing the text rendered from a TimeExpression whose scalar fields are
\* within their parsers' bounds gives that TimeExpression back
C1_RoundTrip ==
    (origin = "rendered" /\ entry = "TimeExpression")
        => (result.ok /\ result.val = value.node)

SpecificRelative(r) == [t |-> "Specific", point |-> [t |-> "Relative", rel |-> r]]

\* C2: on input that starts with an identifier other than 'from', the root
\* parser yields Specific(Relative(r)), r being what the RelativeTime parser
\* returns for the same tokens
C2_LeadingIdentifierFallsThrough ==
    (/\ entry = "TimeExpression"
     /\ PeekKind(text, 1, 0, "id")
     /\ ToLower(text[1]) # Id("from")
     /\ ParseStr("RelativeTime", text).ok)
        => (/\ result.ok
            /\ result.val = SpecificRelative(ParseStr("RelativeTime", text).val))

\* C3: a rendered TimeExpression parses, and rendering what was parsed gives
\* the same text again
C3_IdempotentRender ==
    (origin = "rendered" /\ entry = "TimeExpression")
        => (result.ok /\ RenderTimeExpression(result.val) = text)

(***************************************************************************)
(* Properties of Duration, checked under SpecDuration                      *)
(***************************************************************************)
RECURSIVE LiteralSum(_, _, _)
\* the mathematical sum of the literals paired with a unit in a typed text,
\* as hi * 2^63 + lo without any reduction
LiteralSum(toks, i, unit) ==
    IF i > Len(toks) THEN [hi |-> 0, lo |-> 0]
    ELSE LET rest == LiteralSum(toks, i + 1, unit) IN
         IF toks[i].k = "int" /\ TimeUnitWords[toks[i + 1].w] = unit
         THEN [hi |-> rest.hi + toks[i].hi, lo |-> rest.lo + toks[i].lo]
         ELSE rest

\* C4: each component of a parsed Duration is the sum of the numbers written
\* with that unit, and a unit that is not written is zero
C4_DurationSummation ==
    (origin = "typed" /\ entry = "Duration" /\ result.ok)
        => \A unit \in DOMAIN UnitFields :
              result.val[UnitFields[unit]] = LiteralSum(text, 1, unit)

DisplayOrder == <<"years", "months", "weeks", "days", "hours", "minutes">>

SingularOf == [years |-> "year", months |-> "month", weeks |-> "week",
               days |-> "day", hours |-> "hour", minutes |-> "minute"]

\* the fields of d that are not zero, in display order
NonZeroFields(d) == SelectSeq(DisplayOrder, LAMBDA f : ~NumIsZero(d[f]))

\* "<n> <name>" with the singular name exactly when n is 1
ComponentText(d, f) ==
    <<[k |-> "int", hi |-> d[f].hi, lo |-> d[f].lo, pad |-> FALSE],
      Id(IF NumIsOne(d[f]) THEN SingularOf[f] ELSE f)>>

RECURSIVE JoinComponents(_, _, _)
\* the components from the j-th non-zero field on, joined by ","
JoinComponents(d, fs, j) ==
    IF j > Len(fs) THEN <<>>
    ELSE (IF j > 1 THEN <<Punct(",")>> ELSE <<>>)
         \o ComponentText(d, fs[j]) \o JoinComponents(d, fs, j + 1)

CommaCount(toks) == Cardinality({i \in 1..Len(toks) : toks[i] = Punct(",")})

\* C5: a rendered Duration lists exactly its non-zero components, in the order
\* years, months, weeks, days, hours, minutes, each as "<n> <unit>" with the
\* singular name when n is 1, joined by "," with k - 1 separators for k
\* components and none leading or trailing
C5_DurationRendering ==
    (value.ty = "Duration" /\ origin = "rendered")
        => LET fs == NonZeroFields(value.node) IN
           /\ text = JoinComponents(value.node, fs, 1)
           /\ Len(text) = 2 * Len(fs) + CommaCount(text)
           /\ CommaCount(text) = (IF Len(fs) = 0 THEN 0 ELSE Len(fs) - 1)
           /\ text # <<>> => (text[1] # Punct(",") /\ text[Len(text)] # Punct(","))

\* a Duration with a zero, a singular and a plural component has been rendered
C5_Witness ==
    /\ value.ty = "Duration"
    /\ origin = "rendered"
    /\ NumIsZero(value.node.years)
    /\ NumIsOne(value.node.weeks)
    /\ value.node.minutes = Num(MaxNum)
    /\ CommaCount(text) >= 1

(***************************************************************************)
(* Properties of the field parsers, checked under SpecFields               *)
(***************************************************************************)
\* C6: as_ref / Display of a TimeUnit is the plural name of that unit, and the
\* TimeUnit parser maps the text back to the unit
C6_TimeUnitRoundTrip ==
    (value.ty = "TimeUnit" /\ origin = "rendered")
        => /\ text = <<Id(UnitFields[value.node])>>
           /\ entry = "TimeUnit" => (result.ok /\ result.val = value.node)

\* what a parse came to: the value, or a failure
Outcome(r) == IF r.ok THEN [ok |-> TRUE, val |-> r.val] ELSE [ok |-> FALSE]

\* the hour a Time parse came to
HourOutcome(r) == IF r.ok THEN [ok |-> TRUE, val |-> r.val.hour] ELSE [ok |-> FALSE]

IsMarker(toks) ==
    \/ toks = <<>>
    \/ Len(toks) = 1 /\ toks[1].k = "id" /\ ToLower(toks[1]) \in {Id("am"), Id("pm")}

\* the validation rule for an hour literal and its marker (none, AM or PM)
HourRule(lit, marker) ==
    IF marker # <<>>
    THEN IF lit.hi = 0 /\ lit.lo \in 1..12
         THEN [ok |-> TRUE,
               val |-> [t |-> "Hour12", h |-> lit.lo,
                        ampm |-> IF ToLower(marker[1]) = Id("am") THEN "AM" ELSE "PM"]]
         ELSE [ok |-> FALSE]
    ELSE IF lit.hi = 0 /\ lit.lo \in 0..24
         THEN [ok |-> TRUE, val |-> [t |-> "Hour24", h |-> lit.lo]]
         ELSE [ok |-> FALSE]

IsHourText(toks) ==
    /\ Len(toks) >= 1
    /\ toks[1].k = "int"
    /\ IsMarker(Tail(toks))

IsTimeText(toks) ==
    /\ Len(toks) >= 3
    /\ toks[1].k = "int"
    /\ toks[2] = Punct(":")
    /\ toks[3].k = "int" /\ toks[3].hi = 0 /\ toks[3].lo <= 60
    /\ IsMarker(SubSeq(toks, 4, Len(toks)))

\* C7: an hour with an AM/PM marker is accepted exactly for 1..12 and gives
\* Hour12; an hour without one is accepted exactly for 0..24 and gives Hour24;
\* the Hour parser and the hour of a Time decide alike and build the same Hour
C7_HourValidation ==
    /\ (entry = "Hour" /\ IsHourText(text))
          => /\ Outcome(result) = HourRule(text[1], Tail(text))
             /\ HourOutcome(ParseStr("Time", <<text[1], Punct(":"), PadLit(0)>>
                                             \o Tail(text)))
                   = Outcome(result)
    /\ (entry = "Time" /\ IsTimeText(text))
          => /\ HourOutcome(result) = HourRule(text[1], SubSeq(text, 4, Len(text)))
             /\ Outcome(ParseStr("Hour", <<text[1]>> \o SubSeq(text, 4, Len(text))))
                   = HourOutcome(result)

\* the Hour parser has rejected 13 with a marker
C7_Witness ==
    /\ entry = "Hour"
    /\ Len(text) = 2
    /\ text[1] = Lit(13)
    /\ IsMarker(Tail(text))
    /\ result.kind = "error"

\* C9: the Minute parser accepts exactly the literals 0..60; a larger literal,
\* one that does not fit in 8 bits included, is an error and never a minute
C9_MinuteBounds ==
    (entry = "Minute" /\ Len(text) = 1 /\ text[1].k = "int")
        => IF text[1].hi = 0 /\ text[1].lo <= 60
           THEN result.ok /\ result.val = text[1].lo
           ELSE ~result.ok /\ result.kind = "error"

\* the Minute parser has rejected 259
C9_Witness ==
    /\ entry = "Minute"
    /\ text = <<Lit(259)>>
    /\ result.kind = "error"

(***************************************************************************)
(* Properties of dates and of keywords, checked under Spec                 *)
(***************************************************************************)
DatesInAbsolute(a) == IF a.t = "Date" THEN {a.date} ELSE {a.dt.date}

DatesInDirection(dir) ==
    IF dir.t \in {"AfterAbsolute", "BeforeAbsolute"} THEN DatesInAbsolute(dir.abs) ELSE {}

DatesInRelative(rel) ==
    IF rel.t = "Directional" THEN DatesInDirection(rel.dir) ELSE {}

DatesInPoint(p) ==
    IF p.t = "Absolute" THEN DatesInAbsolute(p.abs) ELSE DatesInRelative(p.rel)

DatesInRange(tr) == DatesInPoint(tr.start) \cup DatesInPoint(tr.end)

DatesInExpression(e) ==
    CASE e.t = "Specific" -> DatesInPoint(e.point)
      [] e.t = "Range" -> DatesInRange(e.range)
      [] e.t = "Duration" -> {}

\* the Dates in the value the last parse returned
DatesParsed ==
    CASE entry = "TimeExpression" -> DatesInExpression(result.val)
      [] entry = "TimeRange" -> DatesInRange(result.val)
      [] entry = "PointInTime" -> DatesInPoint(result.val)
      [] entry = "RelativeTime" -> DatesInRelative(result.val)
      [] entry = "AbsoluteTime" -> DatesInAbsolute(result.val)
      [] entry = "TimeDirection" -> DatesInDirection(result.val)
      [] entry = "DateTime" -> {result.val.date}
      [] entry = "Date" -> {result.val}
      [] OTHER -> {}

DateInBounds(d) ==
    /\ d.day \in 1..31
    /\ \E n \in 1..12 : d.month = MonthNames[n]

\* the token at j is the day of a written date: a literal in front of the
\* first '/'
IsDayLiteral(toks, j) ==
    /\ toks[j].k = "int"
    /\ PeekPunct(toks, j, 1, "/")
    /\ ~(j > 1 /\ toks[j - 1] = Punct("/"))

\* the token at j is the month of a written date: a literal between two '/'
IsMonthLiteral(toks, j) ==
    /\ toks[j].k = "int"
    /\ j > 1 /\ toks[j - 1] = Punct("/")
    /\ PeekPunct(toks, j, 1, "/")

OutOfRange(lit, max) == lit.hi > 0 \/ lit.lo = 0 \/ lit.lo > max

HasBadDateLiteral(toks) ==
    \E j \in 1..Len(toks) :
        \/ IsDayLiteral(toks, j) /\ OutOfRange(toks[j], 31)
        \/ IsMonthLiteral(toks, j) /\ OutOfRange(toks[j], 12)

\* C8: every Date in a value a parser returns has its day in 1..31 and its
\* month in 1..12, and a text with a day literal of 0 or above 31, or a month
\* literal of 0 or above 12, does not parse
C8_DateFieldBounds ==
    /\ result.ok => \A d \in DatesParsed : DateInBounds(d)
    /\ (entry # "none" /\ HasBadDateLiteral(text)) => ~result.ok

\* a TimeExpression whose date was rewritten with an out-of-range day has
\* been rejected with the day's bound as the error
C8_Witness ==
    /\ entry = "TimeExpression"
    /\ origin = "edited"
    /\ \E j \in 1..Len(text) : IsDayLiteral(text, j) /\ OutOfRange(text[j], 31)
    /\ result.kind = "error"
    /\ result.msg = "day must be between 1 and 31 (inclusive)"

\* the two texts differ in the letter case of identifiers at most
SameUpToCase(a, b) ==
    /\ Len(a) = Len(b)
    /\ \A j \in 1..Len(a) :
          IF a[j].k = "id"
          THEN b[j].k = "id" /\ ToLower(a[j]) = ToLower(b[j])
          ELSE a[j] = b[j]

\* C10: a text with the letter case of a keyword changed parses to what the
\* text as rendered parses to: the same AST, or a failure in both cases
C10_KeywordsCaseInsensitive ==
    (entry # "none" /\ origin = "edited" /\ SameUpToCase(text, Render(value)))
        => Outcome(result) = Outcome(ParseStr(entry, Render(value)))

\* syn::parse2 on the outcome r of the root's parser: tokens left are an error
Finished(r, toks) ==
    IF r.ok /\ r.pos <= Len(toks) THEN Err("unexpected token", r.pos, r.pos) ELSE r

\* the outcome r of a sub-parser as the root returns it: its value packed by
\* pack, or its error as it is
Packed(r, pack(_)) == IF r.ok THEN Ok(pack(r.val), r.pos) ELSE r

SpecificOf(p) == [t |-> "Specific", point |-> p]

SpecificAbsolute(a) == SpecificOf([t |-> "Absolute", abs |-> a])

DurationOf(d) == [t |-> "Duration", duration |-> d]

\* C17: for a TimeExpression that starts with an integer literal: with '/' as
\* the second token the result is Specific(Absolute(a)), a from the
\* AbsoluteTime parser; otherwise it is Specific(p) exactly when the
\* PointInTime parser succeeds from the start and returns p, and else what the
\* Duration parser gives from the same start
C17_RootDisambiguation ==
    (entry = "TimeExpression" /\ PeekKind(text, 1, 0, "int"))
        => /\ origin = "rendered" => (result.ok /\ result.val = value.node)
           /\ IF PeekPunct(text, 1, 1, "/")
              THEN result = Finished(Packed(ParseAs("AbsoluteTime", text, 1),
                                            SpecificAbsolute), text)
              ELSE IF ParseAs("PointInTime", text, 1).ok
              THEN result = Finished(Packed(ParseAs("PointInTime", text, 1),
                                            SpecificOf), text)
              ELSE result = Finished(Packed(ParseAs("Duration", text, 1),
                                            DurationOf), text)

\* a Duration alone, on which the PointInTime trial fails, has been parsed
C17_Witness ==
    /\ entry = "TimeExpression"
    /\ origin = "rendered"
    /\ PeekKind(text, 1, 0, "int")
    /\ ~ParseAs("PointInTime", text, 1).ok
    /\ result.ok
    /\ result.val.t = "Duration"

(***************************************************************************)
(* Properties of the Duration separators, checked under SpecDuration      *)
(***************************************************************************)
IsSeparatorToken(tok) == tok = Punct(",") \/ (tok.k = "id" /\ ToLower(tok) = Id("and"))

\* the pairs of a text alone, with nothing between them
StripSeparators(toks) == SelectSeq(toks, LAMBDA tok : ~IsSeparatorToken(tok))

\* between two pairs stands nothing, ',', 'and' or ', and': a ',' follows a
\* unit name and an 'and' is followed by a number
WellSeparated(toks) ==
    \A j \in 1..Len(toks) :
        /\ toks[j] = Punct(",") => (j > 1 /\ ~IsSeparatorToken(toks[j - 1]))
        /\ (toks[j].k = "id" /\ ToLower(toks[j]) = Id("and"))
              => PeekKind(toks, j, 1, "int")

\* C11: between two Number-TimeUnit pairs the Duration parser takes nothing, a
\* comma, 'and', or a comma followed by 'and', and the separators chosen do
\* not change the Duration the pairs give; 'and' in front of a comma is not
\* a separator
C11_DurationSeparators ==
    (origin = "typed" /\ entry = "Duration")
        => IF WellSeparated(text)
           THEN /\ result.ok \/ result.kind = "panic"
                /\ Outcome(result) = Outcome(ParseStr("Duration", StripSeparators(text)))
           ELSE ~result.ok

\* two pairs written with ', and' between them have been parsed
C11_Witness ==
    /\ origin = "typed"
    /\ entry = "Duration"
    /\ PairCount(text) = 2
    /\ \E j \in 1..Len(text) : text[j] = Punct(",") /\ PeekKind(text, j, 1, "id")
                                 /\ text[j + 1] = Id("and")
    /\ result.ok

(***************************************************************************)
(* Properties of the nodes below the root, checked under SpecNodes         *)
(***************************************************************************)
\* the text of a DateTime with the word between date and time left out
WithoutAt(toks) == SubSeq(toks, 1, 5) \o SubSeq(toks, 7, Len(toks))

\* C12: a Date and a Time parse to the same DateTime with and without 'at'
\* between them, another identifier in its place fails with "expected 'at'"
\* at that identifier, and a DateTime renders as date, 'at', time
C12_OptionalAt ==
    (value.ty = "DateTime" /\ origin # "none")
        => LET full == RenderDate(value.node.date) \o <<Id("at")>>
                       \o RenderTime(value.node.time)
           IN
           /\ origin = "rendered" => text = full
           /\ (entry = "DateTime" /\ text \in {full, WithoutAt(full)})
                 => /\ result.ok
                    /\ result.val = value.node
                    /\ Render([ty |-> "DateTime", node |-> result.val]) = full
           /\ (entry = "DateTime" /\ Len(text) = Len(full) /\ text[6] # Id("at"))
                 => /\ ~result.ok
                    /\ result.msg = "expected 'at'"
                    /\ result.at = 6

\* a DateTime written without 'at' has been parsed
C12_Witness ==
    /\ value.ty = "DateTime"
    /\ entry = "DateTime"
    /\ text = WithoutAt(Render(value))
    /\ result.ok

DayIdioms == {"DayAfterTomorrow", "DayBeforeYesterday"}

\* the three-word idioms as Display is to write them
IdiomText(n) ==
    IF n = "DayAfterTomorrow"
    THEN <<Id("the"), Id("day"), Id("after"), Id("tomorrow")>>
    ELSE <<Id("the"), Id("day"), Id("before"), Id("yesterday")>>

\* C13: DayAfterTomorrow and DayBeforeYesterday render as 'the day after
\* tomorrow' and 'the day before yesterday' whether or not the text parsed had
\* the 'the', and the rendered text parses back to the same variant
C13_IdiomRendering ==
    /\ (value.ty = "NamedRelativeTime" /\ value.node \in DayIdioms
        /\ entry = "NamedRelativeTime"
        /\ text \in {IdiomText(value.node), Tail(IdiomText(value.node))})
          => (result.ok /\ result.val = value.node)
    /\ (entry = "NamedRelativeTime" /\ result.ok /\ result.val \in DayIdioms)
          => LET again == Render([ty |-> "NamedRelativeTime", node |-> result.val]) IN
             /\ again = IdiomText(result.val)
             /\ ParseStr("NamedRelativeTime", again).ok
             /\ ParseStr("NamedRelativeTime", again).val = result.val

\* 'day before yesterday', typed without 'the', has been parsed
C13_Witness ==
    /\ origin = "typed"
    /\ entry = "NamedRelativeTime"
    /\ text = <<Id("day"), Id("before"), Id("yesterday")>>
    /\ result.ok
    /\ result.val = "DayBeforeYesterday"

\* the forms of a named relative time, each with its variant
NamedForms ==
    { [text |-> <<Id("now")>>, val |-> "Now"],
      [text |-> <<Id("today")>>, val |-> "Today"],
      [text |-> <<Id("tomorrow")>>, val |-> "Tomorrow"],
      [text |-> <<Id("yesterday")>>, val |-> "Yesterday"],
      [text |-> <<Id("day"), Id("after"), Id("tomorrow")>>, val |-> "DayAfterTomorrow"],
      [text |-> <<Id("the"), Id("day"), Id("after"), Id("tomorrow")>>,
       val |-> "DayAfterTomorrow"],
      [text |-> <<Id("day"), Id("before"), Id("yesterday")>>, val |-> "DayBeforeYesterday"],
      [text |-> <<Id("the"), Id("day"), Id("before"), Id("yesterday")>>,
       val |-> "DayBeforeYesterday"] }

IsPrefix(a, b) == Len(a) <= Len(b) /\ SubSeq(b, 1, Len(a)) = a

C15_TimeRange ==
    (entry = "TimeRange" /\ PeekKind(text, 1, 0, "id"))
        => /\ (value.ty = "TimeRange" /\ origin = "rendered")
                 => /\ text = <<Id("from")>> \o RenderPointInTime(value.node.start)
                               \o <<Id("to")>> \o RenderPointInTime(value.node.end)
                    /\ result.ok
                    /\ result.val = value.node
           /\ ToLower(text[1]) # Id("from")
                 => (~result.ok /\ result.msg = "expected 'from'" /\ result.at = 1)
           /\ ToLower(text[1]) = Id("from")
                 => LET p1 == ParseAs("PointInTime", text, 2)
                        p2 == ParseAs("PointInTime", text, p1.pos + 1)
                    IN
                    /\ ~p1.ok => ~result.ok
                    /\ (p1.ok /\ PeekKind(text, p1.pos, 0, "id")
                        /\ ToLower(text[p1.pos]) # Id("to"))
                          => /\ ~result.ok
                             /\ result.msg = "expected 'to'"
                             /\ result.at = p1.pos
                    /\ (p1.ok /\ PeekKind(text, p1.pos, 0, "id")
                        /\ ToLower(text[p1.pos]) = Id("to"))
                          => /\ result.ok <=> (p2.ok /\ p2.pos > Len(text))
                             /\ result.ok
                                   => result.val = [start |-> p1.val, end |-> p2.val]

\* a range with another word for its 'to' has been rejected at that word
C15_Witness ==
    /\ value.ty = "TimeRange"
    /\ entry = "TimeRange"
    /\ origin = "edited"
    /\ ~result.ok
    /\ result.msg = "expected 'to'"
    /\ result.at \in 2..Len(text)
    /\ text[1] = Id("from")
    /\ text[result.at] = Id("on")

\* the TimeDirection variants by the keywords read
DirectionVariant ==
    [after |-> [abs |-> "AfterAbsolute", next |-> "AfterNext", last |-> "AfterLast",
                named |-> "AfterNamed"],
     before |-> [abs |-> "BeforeAbsolute", next |-> "BeforeNext", last |-> "BeforeLast",
                 named |-> "BeforeNamed"]]

\* what is to come of the text behind 'after' or 'before' (k): the anchor's
\* parser, its outcome packed into k's variant of the anchor's kind
AnchorRule(toks, k) ==
    LET kind == IF PeekKind(toks, 2, 0, "int") THEN "abs"
                ELSE IF PeekKind(toks, 2, 0, "id") /\ ToLower(toks[2]) = Id("next")
                THEN "next"
                ELSE IF PeekKind(toks, 2, 0, "id") /\ ToLower(toks[2]) = Id("last")
                THEN "last"
                ELSE "named"
        sub == CASE kind = "abs" -> ParseAs("AbsoluteTime", toks, 2)
                 [] kind \in {"next", "last"} -> ParseAs("RelativeTimeUnit", toks, 3)
                 [] OTHER -> ParseAs("NamedRelativeTime", toks, 2)
        variant == DirectionVariant[k][kind]
    IN
    IF ~sub.ok \/ sub.pos <= Len(toks) THEN [ok |-> FALSE]
    ELSE [ok |-> TRUE,
          val |-> CASE kind = "abs" -> [t |-> variant, abs |-> sub.val]
                    [] kind \in {"next", "last"} -> [t |-> variant, unit |-> sub.val]
                    [] OTHER -> [t |-> variant, named |-> sub.val]]

\* C16: TimeDirection maps 'ago' to Ago, 'from now' to FromNow ('from' and
\* another identifier fails with "expected 'now'", 'from' and a token that is
\* no identifier with "expected identifier"), 'after' / 'before' and an
\* integer literal to After/BeforeAbsolute of the AbsoluteTime, and 'next' /
\* 'last' to After/Before-Next/Last of the RelativeTimeUnit, and another
\* identifier to After/BeforeNamed of the NamedRelativeTime; another first
\* identifier fails; the variant is the one of the keywords read
C16_TimeDirection ==
    (entry = "TimeDirection" /\ PeekKind(text, 1, 0, "id"))
        => LET k == ToLower(text[1]) IN
           /\ (value.ty = "TimeDirection" /\ origin = "rendered")
                 => (result.ok /\ result.val = value.node)
           /\ (k = Id("ago") /\ Len(text) = 1)
                 => Outcome(result) = [ok |-> TRUE, val |-> [t |-> "Ago"]]
           /\ (k = Id("from") /\ PeekKind(text, 2, 0, "id"))
                 => IF ToLower(text[2]) = Id("now")
                    THEN Len(text) = 2
                            => Outcome(result) = [ok |-> TRUE, val |-> [t |-> "FromNow"]]
                    ELSE ~result.ok /\ result.msg = "expected 'now'" /\ result.at = 2
           /\ (k = Id("from") /\ ~PeekKind(text, 2, 0, "id"))
                 => ~result.ok /\ result.msg = "expected identifier" /\ result.at = 2
           /\ k \in {Id("after"), Id("before")}
                 => Outcome(result) = AnchorRule(text, k.w)
           /\ k \notin {Id("ago"), Id("from"), Id("after"), Id("before")}
                 => /\ ~result.ok
                    /\ result.msg = "expected one of 'after', 'before', 'ago', 'from'"
                    /\ result.at = 1

\* 'from' with another word than 'now' behind it has been rejected
C16_Witness ==
    /\ value.ty = "TimeDirection"
    /\ entry = "TimeDirection"
    /\ text = <<Id("from"), Id("on")>>
    /\ result.msg = "expected 'now'"

\* C16 as worded: 'from' followed by anything but 'now' fails with
\* "expected 'now'"
C16_FromAnythingElse ==
    (/\ entry = "TimeDirection"
     /\ PeekKind(text, 1, 0, "id")
     /\ ToLower(text[1]) = Id("from")
     /\ ~(PeekKind(text, 2, 0, "id") /\ ToLower(text[2]) = Id("now")))
        => (~result.ok /\ result.msg = "expected 'now'")

\* the three tokens from j on are (integer, ':', integer) or (identifier,
\* integer, ':')
IsTimeStart(toks, j) ==
    /\ j + 2 <= Len(toks)
    /\ \/ toks[j].k = "int" /\ toks[j + 1] = Punct(":") /\ toks[j + 2].k = "int"
       \/ toks[j].k = "id" /\ toks[j + 1].k = "int" /\ toks[j + 2] = Punct(":")

\* what AbsoluteTime is to give with the cursor at j
AbsoluteRule(toks, j) ==
    LET r == ParseAs("AbsoluteTime", toks, j)
        d == ParseAs("Date", toks, j)
        dt == ParseAs("DateTime", toks, j)
    IN
    IF ~d.ok
    THEN ~r.ok /\ r.pos = j /\ r.msg = d.msg /\ r.at = d.at
    ELSE IF IsTimeStart(toks, j + 5)
    THEN IF dt.ok
         THEN r = Ok([t |-> "DateTime", dt |-> dt.val], dt.pos)
         ELSE r = dt
    ELSE r = Ok([t |-> "Date", date |-> d.val], j + 5)

\* C18: AbsoluteTime gives a DateTime exactly when the three tokens behind a
\* well-formed Date are (integer, ':', integer) or (identifier, integer, ':')
\* and else the Date, with the cursor behind the Date's five tokens; a
\* malformed Date is an error with the cursor where it was
C18_AbsoluteTimeLookahead ==
    entry = "AbsoluteTime"
        => /\ \A j \in 1..Len(text) : AbsoluteRule(text, j)
           /\ result = Finished(ParseAs("AbsoluteTime", text, 1), text)
           /\ (value.ty = "AbsoluteTime" /\ origin = "rendered")
                 => (result.ok /\ result.val = value.node)

\* a Date with more tokens behind it that start no time has been taken as a
\* Date, and a Date with a time behind it as a DateTime
C18_Witness ==
    /\ entry = "AbsoluteTime"
    /\ \E j \in 1..Len(text) :
          /\ ParseAs("Date", text, j).ok
          /\ j + 5 <= Len(text)
          /\ ~IsTimeStart(text, j + 5)
          /\ ParseAs("AbsoluteTime", text, j).pos = j + 5
    /\ \E j \in 1..Len(text) :
          /\ ParseAs("AbsoluteTime", text, j).ok
          /\ ParseAs("AbsoluteTime", text, j).val.t = "DateTime"

(***************************************************************************)
(* Properties of failure, checked under SpecDuration (and, for the         *)
(* committed sub-parsers, under Spec and SpecNodes)                        *)
(***************************************************************************)
\* r is the error e of a sub-parser, with its message and its place
SameError(r, e) ==
    ~r.ok /\ r.kind = "error" /\ r.msg = e.msg /\ r.at = e.at

\* a parse has finished with a complete AST or with one error
SingleOutcome == entry # "none" => (result.ok \/ result.kind = "error")

\* the error of the AbsoluteTime a TimeExpression commits to behind integer
\* '/', and of either point of a TimeRange, is the error of the parse
CommittedErrors ==
    /\ (entry = "TimeExpression" /\ PeekKind(text, 1, 0, "int") /\ PeekPunct(text, 1, 1, "/"))
          => LET a == ParseAs("AbsoluteTime", text, 1) IN
             ~a.ok => SameError(result, a)
    /\ (entry \in {"TimeExpression", "TimeRange"} /\ PeekKind(text, 1, 0, "id")
            /\ ToLower(text[1]) = Id("from"))
          => LET s == ParseAs("PointInTime", text, 2) IN
             IF ~s.ok THEN SameError(result, s)
             ELSE (PeekKind(text, s.pos, 0, "id") /\ ToLower(text[s.pos]) = Id("to"))
                     => LET e == ParseAs("PointInTime", text, s.pos + 1) IN
                        ~e.ok => SameError(result, e)

\* a day of 32 in a committed Date has been reported as the parse's error
CommittedErrorSeen ==
    /\ entry \in {"TimeExpression", "TimeRange"}
    /\ ~result.ok
    /\ result.msg = "day must be between 1 and 31 (inclusive)"
    /\ result.at \in 1..Len(text)
    /\ text[result.at] = Lit(32)

\* C19: every parse finishes with exactly one of a complete AST or one
\* error, and the error of a committed sub-parser (the AbsoluteTime behind
\* integer '/', either point of a TimeRange) is the error of the whole parse,
\* unchanged
C19_FailFast == SingleOutcome /\ CommittedErrors

(***************************************************************************)
(* Properties of Number, checked under SpecFields                          *)
(***************************************************************************)
\* the text is one integer literal, parsed as a Number
NumberParsed == entry = "Number" /\ Len(text) = 1 /\ text[1].k = "int"

\* the literal's value hi * 2^63 + lo (lo below 2^63) is below 2^64
BelowTwoTo64(lit) == lit.hi < 2

\* the literal's value as a Number
ExactValue(lit) == [hi |-> lit.hi, lo |-> lit.lo]

\* C20: the Number parser accepts every integer literal up to 2^64 - 1 and
\* returns its exact value; a larger literal fails with an error at the
\* literal
C20_NumberRange ==
    NumberParsed
        => IF BelowTwoTo64(text[1])
           THEN result.ok /\ result.val = ExactValue(text[1])
           ELSE SameError(result, Err(TooLarge, 1, 1))

\* the literal 2^64 has been rejected as too large
C20_Witness ==
    /\ NumberParsed
    /\ text = <<BigLit(2, 0)>>
    /\ ~result.ok
    /\ result.msg = TooLarge

\* C20 as stated: the Number parser accepts every integer literal whatever
\* its magnitude and returns its exact value
C20_NumberUnbounded ==
    NumberParsed => (result.ok /\ result.val = ExactValue(text[1]))

(***************************************************************************)
(* Properties of RelativeTime, checked under Spec                          *)
(***************************************************************************)
NextOf(u) == [t |-> "Next", unit |-> u]

LastOf(u) == [t |-> "Last", unit |-> u]

NamedOf(n) == [t |-> "Named", named |-> n]

\* the first token as a lower-case word, "" when it is no identifier
FirstWord(toks) == IF PeekKind(toks, 1, 0, "id") THEN ToLower(toks[1]).w ELSE ""

\* what the Duration-TimeDirection production gives on toks
DirectionalRule(toks) ==
    LET d == ParseAs("Duration", toks, 1) IN
    IF ~d.ok THEN d ELSE
    LET dir == ParseAs("TimeDirection", toks, d.pos) IN
    IF ~dir.ok THEN dir
    ELSE Ok([t |-> "Directional", duration |-> d.val, dir |-> dir.val], dir.pos)

\* C24: RelativeTime takes its production from the first token alone:
\* 'next'/'last' give Next/Last of the RelativeTimeUnit that follows, day,
\* now, today, tomorrow, yesterday and the give Named of the
\* NamedRelativeTime parse, anything else gives the Duration followed by a
\* TimeDirection; the error of the production chosen is the error returned,
\* and a Duration with no direction is not a RelativeTime
C24_RelativeTimeDispatch ==
    entry = "RelativeTime"
        => /\ IF FirstWord(text) = "next"
              THEN result = Finished(Packed(ParseAs("RelativeTimeUnit", text, 2), NextOf), text)
              ELSE IF FirstWord(text) = "last"
              THEN result = Finished(Packed(ParseAs("RelativeTimeUnit", text, 2), LastOf), text)
              ELSE IF FirstWord(text) \in {"day", "now", "today", "tomorrow", "yesterday", "the"}
              THEN result = Finished(Packed(ParseAs("NamedRelativeTime", text, 1), NamedOf), text)
              ELSE result = Finished(DirectionalRule(text), text)
           /\ ParseStr("Duration", text).ok => ~result.ok

\* a Duration with no direction has been refused as a RelativeTime, with the
\* error of the TimeDirection parser
C24_Witness ==
    /\ entry = "RelativeTime"
    /\ ParseStr("Duration", text).ok
    /\ ~result.ok
    /\ SameError(result, ParseAs("TimeDirection", text, Len(text) + 1))
(***************************************************************************)
(* Properties of the round trip below the root, checked under Spec         *)
(***************************************************************************)
\* the Durations in a point
DurationsInPoint(p) ==
    IF p.t = "Relative" /\ p.rel.t = "Directional" THEN {p.rel.duration} ELSE {}

\* every Duration in the point has a component that is not zero
NoZeroDuration(p) == \A d \in DurationsInPoint(p) : d # ZeroDuration

\* the ten variants of TimeDirection
AllDirections ==
    {"Ago", "FromNow", "AfterAbsolute", "BeforeAbsolute", "AfterNamed", "BeforeNamed",
     "AfterNext", "AfterLast", "BeforeNext", "BeforeLast"}

\* C29: the rendering of a PointInTime, and of a TimeRange, whose Durations
\* are not all-zero, parsed by the PointInTime, resp. the TimeRange parser,
\* gives the value back
C29_RoundTripBelowRoot ==
    (origin = "rendered" /\ value.ty = "TimeExpression")
        => /\ (entry = "PointInTime" /\ value.node.t = "Specific"
                  /\ NoZeroDuration(value.node.point))
                 => (result.ok /\ result.val = value.node.point)
           /\ (entry = "TimeRange" /\ value.node.t = "Range"
                  /\ NoZeroDuration(value.node.range.start)
                  /\ NoZeroDuration(value.node.range.end))
                 => (result.ok /\ result.val = value.node.range)

\* a range from a Directional anchored at a Date to a DateTime has come back
C29_Witness ==
    /\ origin = "rendered"
    /\ value.ty = "TimeExpression"
    /\ entry = "TimeRange"
    /\ value.node.t = "Range"
    /\ value.node.range.start.t = "Relative"
    /\ value.node.range.start.rel.t = "Directional"
    /\ value.node.range.start.rel.dir.t = "AfterAbsolute"
    /\ value.node.range.end.t = "Absolute"
    /\ value.node.range.end.abs.t = "DateTime"
    /\ result.ok
    /\ result.val = value.node.range

\* every TimeDirection variant is among the points rendered
C29_AllDirectionsCovered ==
    \A k \in AllDirections :
        \E p \in PointSamples :
            p.t = "Relative" /\ p.rel.t = "Directional" /\ p.rel.dir.t = k
(***************************************************************************)
(* Properties of the idiom diagnostics, checked under SpecNodes            *)
(***************************************************************************)
\* where the idiom starts: behind a leading 'the' that an identifier follows
IdiomStart(toks) ==
    IF toks[1] = Id("the") /\ PeekKind(toks, 2, 0, "id") THEN 2 ELSE 1

\* the text is parsed as a NamedRelativeTime, is no single-word form, and has
\* three identifiers from the start of the idiom on
IdiomParsed ==
    /\ entry = "NamedRelativeTime"
    /\ text # <<>>
    /\ text[1].k = "id"
    /\ ToLower(text[1]).w \notin {"now", "today", "tomorrow", "yesterday"}
    /\ IdiomStart(text) + 2 <= Len(text)
    /\ \A k \in 0..2 : text[IdiomStart(text) + k].k = "id"

\* the words of the idiom, in lower case
IdiomWord(k) == ToLower(text[IdiomStart(text) + k - 1]).w

\* result is the error msg at the k-th word of the idiom
ReportedAt(k, msg) ==
    ~result.ok /\ result.msg = msg /\ result.at = IdiomStart(text) + k - 1

\* C25: a failing idiom is reported by the words that did match: a first
\* word other than 'day' at the first word, a second word other than before
\* and after as "expected 'before' or 'after'", and behind a valid second
\* word the third word it calls for: 'yesterday' behind 'day before' and
\* 'tomorrow' behind 'day after', whatever the wrong third word is
C25_IdiomDiagnostics ==
    IdiomParsed
        => IF IdiomWord(1) # "day"
           THEN ReportedAt(1, "expected one of 'day', 'now', 'today', 'tomorrow', 'yesterday', 'the'")
           ELSE IF IdiomWord(2) \notin {"before", "after"}
           THEN ReportedAt(2, "expected 'before' or 'after'")
           ELSE IF IdiomWord(2) = "before"
           THEN IdiomWord(3) # "yesterday" => ReportedAt(3, "expected 'yesterday'")
           ELSE IdiomWord(3) # "tomorrow" => ReportedAt(3, "expected 'tomorrow'")

(***************************************************************************)
(* Properties of a Date before 'to', checked under SpecNodes               *)
(***************************************************************************)
\* the point ends in a bare Date: a Date, or a Directional anchored at one
EndsInDate(p) ==
    \/ p.t = "Absolute" /\ p.abs.t = "Date"
    \/ /\ p.t = "Relative"
       /\ p.rel.t = "Directional"
       /\ p.rel.dir.t \in {"AfterAbsolute", "BeforeAbsolute"}
       /\ p.rel.dir.abs.t = "Date"

\* a well-formed Date stands at j, then 'to', then a well-formed PointInTime
DateBeforeTo(toks, j) ==
    /\ ParseAs("Date", toks, j).ok
    /\ j + 5 <= Len(toks)
    /\ toks[j + 5].k = "id"
    /\ ToLower(toks[j + 5]) = Id("to")
    /\ ParseAs("PointInTime", toks, j + 6).ok

\* C30: in a TimeRange a Date that is followed by 'to' and a well-formed
\* PointInTime is taken as a Date, never as a DateTime, with the cursor left
\* at 'to'; the rendering of a range whose start ends in a bare Date parses
\* as that range
C30_DateBeforeTo ==
    entry = "TimeRange"
        => /\ \A j \in 1..Len(text) :
                 DateBeforeTo(text, j)
                    => LET a == ParseAs("AbsoluteTime", text, j) IN
                       a.ok /\ a.val.t = "Date" /\ a.pos = j + 5
           /\ (origin = "rendered" /\ value.ty = "TimeRange" /\ EndsInDate(value.node.start))
                 => (result.ok /\ result.val = value.node)

\* a range whose start ends in a bare Date has been parsed with that Date
\* taken as a Date
C30_Witness ==
    /\ entry = "TimeRange"
    /\ origin = "rendered"
    /\ value.ty = "TimeRange"
    /\ EndsInDate(value.node.start)
    /\ \E j \in 1..Len(text) : DateBeforeTo(text, j)
    /\ result.ok
    /\ EndsInDate(result.val.start)

(***************************************************************************)
(* Properties of the cursor behind a Time, checked under SpecNodes         *)
(***************************************************************************)
\* from j on stand an integer, ':', an integer and an identifier that is
\* neither am nor pm
TimeBeforeWord(toks, j) ==
    /\ j + 3 <= Len(toks)
    /\ toks[j].k = "int" /\ toks[j + 1] = Punct(":") /\ toks[j + 2].k = "int"
    /\ toks[j + 3].k = "id"
    /\ ToLower(toks[j + 3]) \notin {Id("am"), Id("pm")}

\* the literal's value is at most max
AtMost(lit, max) == lit.hi = 0 /\ lit.lo <= max

\* the start of the range is a DateTime on the 24-hour clock
StartsAt24Hour(v) ==
    /\ v.ty = "TimeRange"
    /\ v.node.start.t = "Absolute"
    /\ v.node.start.abs.t = "DateTime"
    /\ v.node.start.abs.dt.time.hour.t = "Hour24"

\* C21: a Time whose minute is followed by an identifier other than am/pm is
\* a 24-hour Time (when its hour is at most 24 and its minute at most 60) and
\* the cursor is left at that identifier; the rendering of a TimeRange whose
\* start is a DateTime with such a Time parses as that TimeRange
C21_TimeLeavesWord ==
    /\ \A j \in 1..Len(text) :
          TimeBeforeWord(text, j)
             => LET r == ParseAs("Time", text, j) IN
                /\ r.ok <=> (AtMost(text[j], 24) /\ AtMost(text[j + 2], 60))
                /\ r.ok => /\ r.val.hour = [t |-> "Hour24", h |-> text[j].lo]
                           /\ r.val.minute = text[j + 2].lo
                           /\ r.pos = j + 3
    /\ (entry = "TimeRange" /\ origin = "rendered" /\ StartsAt24Hour(value))
          => (result.ok /\ result.val = value.node)

\* 'from <date> at <hour>:<minute> to ...' has been parsed as a TimeRange that
\* starts at a DateTime on the 24-hour clock
C21_Witness ==
    /\ entry = "TimeRange"
    /\ origin = "rendered"
    /\ StartsAt24Hour(value)
    /\ TimeBeforeWord(text, 8)
    /\ text[11] = Id("to")
    /\ result.ok
    /\ result.val.start.abs.t = "DateTime"
    /\ result.val.start.abs.dt.time.hour.t = "Hour24"

(***************************************************************************)
(* Properties of the root's speculative trial, checked under Spec          *)
(***************************************************************************)
\* the root runs its PointInTime trial on the text and the trial fails
TrialFails ==
    /\ entry = "TimeExpression"
    /\ PeekKind(text, 1, 0, "int")
    /\ ~PeekPunct(text, 1, 1, "/")
    /\ ~ParseAs("PointInTime", text, 1).ok

Parsers == DOMAIN Calls

RECURSIVE CalledWithin(_, _)
\* the parsers run by those of S within n calls
CalledWithin(S, n) ==
    IF n = 0 THEN S ELSE CalledWithin(S \cup UNION {Calls[p] : p \in S}, n - 1)

\* the parsers a parser runs, directly or not
Reaches(ty) == CalledWithin(Calls[ty], Cardinality(Parsers))

\* C23: every parse ends: each iteration of the Duration loop moves the
\* cursor by at least two tokens (so there are at most half as many
\* iterations as tokens), no parser runs itself directly or through others,
\* no parser runs the root, and the root makes at most one PointInTime trial
C23_Termination ==
    /\ entry # "none" => result # NoResult
    /\ \A j \in 1..Len(text) :
          LET cursors == LoopCursors(text, j) IN
          /\ \A k \in 1..(Len(cursors) - 1) : cursors[k + 1] >= cursors[k] + 2
          /\ 2 * (Len(cursors) - 1) <= Len(text)
    /\ \A ty \in Parsers : ty \notin Reaches(ty) /\ "TimeExpression" \notin Calls[ty]
    /\ RootTrials(text, 1) <= 1

\* the root has made its trial, and the Duration loop has gone round twice,
\* over a separator of two tokens
C23_Witness ==
    /\ entry = "TimeExpression"
    /\ RootTrials(text, 1) = 1
    /\ Len(LoopCursors(text, 1)) >= 3
    /\ LoopCursors(text, 1)[2] = 5
    /\ result.ok

\* the cursors behind an optional ',' and an optional 'and' that start at j
AfterSeparators(toks, j) ==
    {j}
    \cup (IF j <= Len(toks) /\ toks[j] \in {Punct(","), Id("and")} THEN {j + 1} ELSE {})
    \cup (IF j + 1 <= Len(toks) /\ toks[j] = Punct(",") /\ toks[j + 1] = Id("and")
          THEN {j + 2} ELSE {})

RECURSIVE SentenceFrom(_, _)
\* toks from i on is Number TimeUnit ([','] ['and'] Number TimeUnit)*
SentenceFrom(toks, i) ==
    /\ i + 1 <= Len(toks)
    /\ toks[i].k = "int"
    /\ toks[i + 1].k = "id"
    /\ InTable(TimeUnitWords, ToLower(toks[i + 1]))
    /\ \/ i + 2 = Len(toks) + 1
       \/ \E k \in AfterSeparators(toks, i + 2) : k <= Len(toks) /\ SentenceFrom(toks, k)

\* a ',' or an 'and' stands directly before an 'ago'
SeparatorBeforeAgo(toks) ==
    \E j \in 1..(Len(toks) - 1) :
        toks[j] \in {Punct(","), Id("and")} /\ toks[j + 1] = Id("ago")

\* C26: the Duration parser accepts exactly the sentences of
\* Number TimeUnit ([','] ['and'] Number TimeUnit)* (of numbers that do not
\* overflow): a text that ends in a separator is not accepted as a Duration,
\* and a separator directly before a direction is not swallowed
C26_DurationGrammar ==
    /\ entry = "Duration"
          => /\ result.ok => SentenceFrom(text, 1)
             /\ (SentenceFrom(text, 1) /\ \A j \in 1..Len(text) : text[j] # BigLit(1, 0))
                   => result.ok
    /\ (entry \in {"RelativeTime", "PointInTime", "TimeExpression"}
            /\ SeparatorBeforeAgo(text))
          => ~result.ok

\* the text is an integer and an identifier that is neither am nor pm
HourBeforeWord(toks) ==
    /\ Len(toks) = 2
    /\ toks[1].k = "int"
    /\ toks[2].k = "id"
    /\ ToLower(toks[2]) \notin {Id("am"), Id("pm")}

\* C27: the Hour parser takes a second token only when it is an AM/PM
\* identifier: behind an integer any other identifier is left at the cursor,
\* and the text is not accepted in full as an Hour
C27_HourLeavesWord ==
    (entry = "Hour" /\ HourBeforeWord(text))
        => /\ ParseAs("Hour", text, 1).ok => ParseAs("Hour", text, 1).pos = 2
           /\ ~result.ok

(***************************************************************************)
(* Properties of the accumulator, checked under SpecDuration               *)
(***************************************************************************)
\* the numbers written with some unit sum to 2^64 or more
SumExceedsU64(toks) ==
    \E unit \in DOMAIN UnitFields : LiteralSum(toks, 1, unit).hi >= 2

\* C28: every component of a returned Duration is the sum of the numbers
\* written with its unit, and when the numbers of a unit sum to more than
\* 2^64 - 1 the parse returns an error: no wrapped component, no abort
C28_ExactAccumulation ==
    (origin = "typed" /\ entry = "Duration")
        => /\ result.ok
                 => \A unit \in DOMAIN UnitFields :
                       result.val[UnitFields[unit]] = LiteralSum(text, 1, unit)
           /\ SumExceedsU64(text) => (~result.ok /\ result.kind = "error")

=============================================================================
